---- MODULE Spec2Model ----
(***************************************************************************)
(* Model of the Security Manager of electron-mcp-server                    *)
(* (security/manager.ts) together with the Code Sandbox it drives          *)
(* (security/sandbox.ts), the tool dispatcher handleToolCall, AccessControl *)
(* (security/access-control.ts) and the stateless helpers of               *)
(* security/config.ts and the dry-run analyzer.                            *)
(* One executeSecurely call is a small process:                            *)
(* its synchronous prefix (session id, validation, risk gate, the choice   *)
(* between sandbox and pass-through) is one atomic step of the event loop, *)
(* and every await (mkdir, writeFile, the child process, unlink, rm, the   *)
(* audit write) is a separate step that other calls and updateConfig may   *)
(* interleave with.                                                        *)
(*                                                                         *)
(* security/validation.ts and security/audit.ts are not part of the        *)
(* sources at hand; validateCommand, the rate limiter and the audit sink   *)
(* are modelled from the specification (sections 4.1, 4.4 and 4.5).        *)
(***************************************************************************)
EXTENDS Integers, Sequences, FiniteSets, TLC

(***************************************************************************)
(* Bounds of the model.                                                    *)
(***************************************************************************)
MaxCalls == 2
MaxTime == 1

Calls == 1..MaxCalls

(***************************************************************************)
(* Risk levels, totally ordered low < medium < high < critical.            *)
(***************************************************************************)
RiskLevels == {"low", "medium", "high", "critical"}

RiskRank(l) ==
  CASE l = "low" -> 0
    [] l = "medium" -> 1
    [] l = "high" -> 2
    [] l = "critical" -> 3

OperationTypes == {"command", "screenshot", "logs", "window_info"}

(***************************************************************************)
(* Commands.  A string command is a sequence of lexical fragments; a       *)
(* command that is not a string at all (undefined, a number) carries       *)
(* isString = FALSE.                                                       *)
(***************************************************************************)
Str(toks) == [isString |-> TRUE, toks |-> toks]

NonStringCommand == [isString |-> FALSE, toks |-> <<>>]

Commands ==
  { Str(<<>>),
    Str(<<"document.title", "'">>),
    Str(<<"setTimeout(">>),
    Str(<<"window.close()">>),
    Str(<<"eval(", "document.title">>),
    NonStringCommand }

\* The contexts executeSecurely is called with: every command above as a
\* 'command' operation, and one command for each other operation type.
Contexts ==
  [command : Commands, operationType : {"command"}]
    \cup { [command |-> Str(<<"document.title", "'">>), operationType |-> "screenshot"],
           [command |-> Str(<<"document.cookie">>), operationType |-> "logs"],
           [command |-> Str(<<"document.title", "'">>),
            operationType |-> "window_info"] }

Range(s) == {s[i] : i \in 1..Len(s)}

(***************************************************************************)
(* InputValidator.validateCommand, modelled from section 4.1: the rules    *)
(* for an empty or non-string command and for a denylisted keyword, the    *)
(* risk level by content, and the sanitized copy (a selector quote is      *)
(* escaped).                                                               *)
(***************************************************************************)
DangerousKeywords == {"eval("}

TokenRisk(tok) ==
  CASE tok = "document.cookie" -> "medium"
    [] tok = "setTimeout(" -> "high"
    [] tok = "window.close()" -> "critical"
    [] OTHER -> "low"

MaxRisk(a, b) == IF RiskRank(a) >= RiskRank(b) THEN a ELSE b

RECURSIVE AssessRisk(_)
AssessRisk(toks) ==
  IF toks = <<>> THEN "low" ELSE MaxRisk(TokenRisk(Head(toks)), AssessRisk(Tail(toks)))

SanitizeToken(tok) == IF tok = "'" THEN "\\'" ELSE tok

SanitizeCommand(toks) == [i \in 1..Len(toks) |-> SanitizeToken(toks[i])]

ValidationErrors(cmd) ==
  IF ~cmd.isString \/ cmd.toks = <<>> THEN {"Command must be a non-empty string"}
  ELSE IF Range(cmd.toks) \cap DangerousKeywords # {}
       THEN {"Dangerous keyword detected"} ELSE {}

validateCommand(cmd) ==
  LET errors == ValidationErrors(cmd) IN
  [ isValid |-> errors = {},
    sanitizedInput |-> SanitizeCommand(cmd.toks),
    riskLevel |-> IF errors # {} THEN "critical" ELSE AssessRisk(cmd.toks),
    errors |-> errors ]

(***************************************************************************)
(* CodeSandbox.validateCode: the static re-validation of the sandbox, on   *)
(* the fragments of the command alphabet.  A fragment ending in "("        *)
(* matches \bname\s*\( of a blacklisted function.                          *)
(***************************************************************************)
BlacklistedFunctionCalls == {"eval(", "setTimeout("}

BlacklistedObjects == {"fs", "path", "crypto"}

DangerousPatterns == {"prototype.", "process.", "global."}

\* A static validation that rejects nothing.
validateCode_AcceptsAll(code) == [isValid |-> TRUE, errors |-> {}]

validateCode(code) ==
  LET errors ==
        {<<"Forbidden function", t>> : t \in Range(code) \cap BlacklistedFunctionCalls}
          \cup {<<"Forbidden module/object", t>> : t \in Range(code) \cap BlacklistedObjects}
          \cup {<<"Dangerous pattern detected", t>> : t \in Range(code) \cap DangerousPatterns}
  IN [isValid |-> errors = {}, errors |-> errors]

(***************************************************************************)
(* Values.  A result value is a sequence of fragments: the sanitized       *)
(* command on the pass-through path, the value the child printed on the    *)
(* sandbox path, Undefined where the field is absent.                      *)
(***************************************************************************)
Undefined == <<"undefined">>

ChildValue == <<"value printed by the child">>

NoError == "undefined"

(***************************************************************************)
(* SecurityManager state.                                                  *)
(***************************************************************************)
\* config.sandboxTimeout, in milliseconds; updateConfig does not rebuild
\* the sandbox, which keeps the value it was constructed with.
sandboxTimeout == 5000

DefaultConfig ==
  [ enableSandbox |-> TRUE,
    enableAuditLog |-> TRUE,
    enableScreenshotEncryption |-> TRUE,
    defaultRiskThreshold |-> "medium",
    sandboxTimeout |-> sandboxTimeout ]

\* this.sandbox = new CodeSandbox({ timeout: this.config.sandboxTimeout }),
\* in the constructor and nowhere else: options.timeout of the sandbox.
SandboxOptionsTimeout == DefaultConfig.sandboxTimeout

\* The sandboxTimeout values callers pass to updateConfig.
TimeoutConfigs == [sandboxTimeout : {1000, 5000}]

PartialConfigs ==
  [defaultRiskThreshold : RiskLevels]
    \cup [enableSandbox : BOOLEAN]
    \cup [enableAuditLog : BOOLEAN]
    \cup {[enableSandbox |-> FALSE, defaultRiskThreshold |-> "high"]}

MergeConfig(old, new) ==
  [f \in DOMAIN old |-> IF f \in DOMAIN new THEN new[f] ELSE old[f]]

VARIABLES
  config,      \* SecurityManager.config
  now,         \* the value Date.now() returned last
  nextUuid,    \* the ids randomUUID() has handed out so far
  call,        \* call[c]: one executeSecurely invocation and its position
  dirs,        \* scratch directories that exist under temp/
  scripts,     \* script.cjs files that exist, by scratch directory
  children,    \* child processes alive, by scratch directory
  auditLog,    \* the audit store: entries written so far
  auditWarnings, \* session ids whose audit write failed (operator channel)
  handler,     \* handler[r]: one handleToolCall invocation and its position
  acNow,       \* AccessControl: the time new Date() returns
  users,       \* AccessControl.users, in insertion order
  sessions,    \* AccessControl.sessions, by session id
  permArrays,  \* the permission arrays on the heap, by reference
  acIssued,    \* the ids randomUUID() has handed out to AccessControl
  acHistory,   \* what has happened to each session id (for the properties)
  acReturn,    \* the last AccessControl call and the value it returned
  limiter,     \* RateLimiter: the windows still open and their counts, by key
  env,         \* process.env: MCP_SECURITY_LEVEL and NODE_ENV
  detected,    \* the value detectSecurityLevel() returned last
  dryRun,      \* the last detectCommandType call and the value it returned
  analysed,    \* the last analyzeCommand call and the verdict it returned
  translation, \* one sendCommandToElectron invocation and its position
  evaluation,  \* one executeInElectron invocation: its socket, timer and promise
  electronProcess, \* the module's handle: the child it manages, or null
  processes,   \* the state of every child spawned so far, by pid
  launching,   \* the launchElectronApp calls in their one-second wait
  graceTimers, \* the pending 5 s timers of closeElectronApp(false)
  timerKills   \* which process each fired grace timer killed (for the properties)

managerVars ==
  <<config, now, nextUuid, call, dirs, scripts, children, auditLog, auditWarnings>>

\* The state of AccessControl.
acVars == <<acNow, users, sessions, permArrays, acIssued, acHistory, acReturn, limiter>>

\* The environment and the results of the stateless helpers.
analysisVars == <<env, detected, dryRun, analysed>>

\* The state of the helpers that talk to the Electron application.
launcherVars == <<electronProcess, processes, launching, graceTimers, timerKills>>

utilVars == <<translation, evaluation, launcherVars>>

vars == <<managerVars, handler, acVars, analysisVars, utilVars>>

NoContext == [command |-> Str(<<>>), operationType |-> "command"]

NoResult ==
  [ success |-> FALSE, result |-> Undefined, error |-> NoError, executionTime |-> 0,
    riskLevel |-> "low", blocked |-> FALSE, sessionId |-> 0 ]

NoSandboxResult == [success |-> FALSE, result |-> Undefined, error |-> NoError]

IdleCall ==
  [ pc |-> "idle",
    ctx |-> NoContext,
    sessionId |-> 0,
    startTime |-> 0,
    sandboxId |-> 0,
    settled |-> NoSandboxResult,     \* how executeInProcess / writeFile settled
    executionResult |-> NoSandboxResult,
    result |-> NoResult,
    outcome |-> "pending",           \* of the promise executeSecurely returned
    trace |-> <<>>,                  \* the steps this call has taken, in order
    sandboxAtExecution |-> FALSE,    \* config.enableSandbox as read at step 3
    auditAtStep5 |-> FALSE,          \* config.enableAuditLog as read at step 5
    exit |-> "none",                 \* how this call's child ended
    timeoutAtStart |-> 0,            \* config.sandboxTimeout when the call started
    spawnTimeout |-> 0,              \* the timeout option spawn was given
    spawns |-> 0,                    \* children this call has spawned
    mkdirs |-> 0 ]                   \* scratch directories this call has created

(***************************************************************************)
(* handleToolCall: the request a caller sends and the response it gets.    *)
(* A request names a tool and carries arguments; argsValid tells whether   *)
(* the tool's zod schema accepts them.  Request r is served through call   *)
(* slot r of the Security Manager.                                         *)
(***************************************************************************)
ToolNames ==
  {"get_electron_window_info", "take_screenshot", "send_command_to_electron",
   "read_electron_logs"}

\* A path is the sequence of its segments, the root first; outputPath is
\* optional, and a request without one carries NoPath.
NoPath == <<>>

\* The output paths callers pass to take_screenshot.
OutputPaths ==
  { <<"..", "..", "..", "etc", "passwd">>,
    <<"/", "etc", "shadow">>,
    <<"/", "proc", "self", "mem">>,
    <<"~", ".ssh", "id_rsa">>,
    <<"C:", "Windows", "System32", "config", "SAM">>,
    <<"/", "home", "user", "shot.png">> }

\* path.join(os.tmpdir(), `electron-screenshot-${timestamp}.png`)
DefaultPath == <<"/", "tmp", "electron-screenshot.png">>

\* const finalPath = outputPath || defaultPath
FinalPath(outputPath) == IF outputPath = NoPath THEN DefaultPath ELSE outputPath

ToolRequest(name, command, argsValid, outputPath) ==
  [name |-> name, command |-> command, argsValid |-> argsValid,
   outputPath |-> outputPath]

\* SendCommandToElectronSchema accepts exactly the string commands;
\* TakeScreenshotSchema accepts every string as outputPath.
ToolRequests ==
  {ToolRequest("send_command_to_electron", cmd, cmd.isString, NoPath) : cmd \in Commands}
    \cup {ToolRequest(name, Str(<<>>), ok, NoPath) :
            name \in (ToolNames \ {"send_command_to_electron"}) \cup {"unknown_tool"},
            ok \in BOOLEAN}
    \cup {ToolRequest("take_screenshot", Str(<<>>), TRUE, outputPath) :
            outputPath \in OutputPaths}

NoResponse == [text |-> "none", error |-> NoError, riskLevel |-> "none", isError |-> FALSE]

IdleHandler ==
  [ pc |-> "idle",
    request |-> ToolRequest("unknown_tool", Str(<<>>), FALSE, NoPath),
    contacts |-> 0,                  \* times this request reached the live target
    written |-> NoPath,              \* the file takeScreenshot wrote the capture to
    response |-> NoResponse ]

(***************************************************************************)
(* AccessControl (security/access-control.ts).  Time is counted in units   *)
(* of half the inactivity timeout (12 h).  A permissions array is an       *)
(* object on the heap: a user and the sessions issued to it hold a         *)
(* reference to the same array.  createdAt and lastLogin are written and   *)
(* never read, and are left out.                                           *)
(***************************************************************************)
MaxAcTime == 3
MaxSessions == 2
MaxArrays == 3
MaxUsers == 2
MaxChecks == 3
MaxKeys == 1

\* One unit of time, 12 h, in milliseconds.
UnitMs == 43200000

\* sessionTimeout, 24 h, in units of 12 h.
SessionTimeout == 2

Permissions == {"execute_code", "take_screenshot", "admin"}

\* createUser's default for the permissions parameter.
DefaultPermissions == {"execute_code", "take_screenshot"}

\* The permission arrays callers pass to createUser and updateUserPermissions.
PermissionArrays == {{"admin"}, {"execute_code"}, DefaultPermissions}

Usernames == {"admin", "alice"}

\* The permissions callers ask hasPermission about.
RequestedPermissions == {"execute_code", "take_screenshot"}

Passwords == {"admin123", "secret99"}

\* The window of every rate limit: createUser's default, and the default
\* admin's.
WindowMs == 60000

\* The rate limits callers pass to createUser.
RateLimits == {[maxRequests |-> m, windowMs |-> WindowMs] : m \in {1, 2}}

\* hashPassword: sha256 of the password followed by the fixed salt.
hashPassword(password) == <<"sha256", password, "mcp-server-salt">>

\* A password check that accepts every password.
verifyPassword_AcceptsAny(password, hashedPassword) == TRUE

\* verifyPassword: the hashes have equal length and equal bytes.
verifyPassword(password, hashedPassword) == hashPassword(password) = hashedPassword

\* generateApiKey: 'mcp_' followed by a fresh UUID.
generateApiKey(uuid) == <<"mcp_", uuid>>

NoReturn ==
  [op |-> "none", sessionId |-> 0, arg |-> "none", password |-> "none",
   apiKey |-> <<>>, sessionOk |-> FALSE, value |-> FALSE]

\* initializeDefaultUser: createUser('admin', defaultPassword, ['admin'])
\* runs to completion inside the constructor; the user's id and the id in
\* its API key are the first two values of randomUUID.
DefaultAdmin ==
  [ id |-> 1,
    username |-> "admin",
    hashedPassword |-> hashPassword("admin123"),
    permissions |-> 1,
    rateLimit |-> [maxRequests |-> 1000, windowMs |-> WindowMs],
    isActive |-> TRUE,
    apiKey |-> generateApiKey(2) ]

AcInit ==
  /\ acNow = 0
  /\ users = <<DefaultAdmin>>
  /\ sessions = <<>>
  /\ permArrays = <<{"admin"}>>
  /\ acIssued = 2
  /\ acHistory = [revoked |-> {}, expired |-> {}, outdated |-> {}, issuedWith |-> <<>>,
                  oldKeys |-> {}, checks |-> <<>>]
  /\ acReturn = NoReturn
  /\ limiter = <<>>

\* An environment variable that is not set.
Unset == "(unset)"

\* No helper has been called yet.
NoDetection == "none"
NoDryRun == [called |-> FALSE, command |-> Str(<<>>), type |-> "none"]

\* No command has been sent to the application yet.
NoArgs == [selector |-> <<>>, text |-> <<>>, value |-> <<>>]
IdleTranslation ==
  [pc |-> "idle", command |-> "", args |-> NoArgs, evaluations |-> 0,
   outcome |-> "none", result |-> "none"]

\* executeInElectron has not been called.
IdleEvaluation ==
  [phase |-> "idle", messageId |-> 0, socket |-> "none", timer |-> "none",
   elapsed |-> 0, requests |-> <<>>, promise |-> "pending", value |-> "none"]

\* The most children the model spawns, and their pids.
MaxLaunches == 3
Pids == 1..MaxLaunches

\* electronProcess = null
Null == 0

\* A child that has not been spawned yet.  exitCode is "null" until the
\* child has exited by itself; a child ended by a signal keeps it null.
Unborn == [status |-> "unborn", exitCode |-> "null"]

\* export let electronProcess: ChildProcess | null = null: nothing has been
\* spawned.
LauncherInit ==
  /\ electronProcess = Null
  /\ processes = [p \in Pids |-> Unborn]
  /\ launching = {}
  /\ graceTimers = {}
  /\ timerKills = {}

\* analyzeCommand has not been called.
NoAnalysis ==
  [called |-> FALSE, command |-> Str(<<>>), outcome |-> "none",
   wouldExecute |-> FALSE, riskLevel |-> "low"]

\* The state after the modules have been loaded, in environment e: the
\* global securityManager is built by new SecurityManager(), with no
\* argument.
Startup(e) ==
  /\ env = e
  /\ detected = NoDetection
  /\ dryRun = NoDryRun
  /\ analysed = NoAnalysis
  /\ translation = IdleTranslation
  /\ evaluation = IdleEvaluation
  /\ LauncherInit
  /\ AcInit
  /\ handler = [r \in Calls |-> IdleHandler]
  /\ config = DefaultConfig
  /\ now = 0
  /\ nextUuid = 0
  /\ call = [c \in Calls |-> IdleCall]
  /\ dirs = {}
  /\ scripts = {}
  /\ children = {}
  /\ auditLog = <<>>
  /\ auditWarnings = {}

\* The server started with neither variable set.
Init == Startup([MCP_SECURITY_LEVEL |-> Unset, NODE_ENV |-> Unset])

\* A session id that is not drawn afresh for each call.
randomUUID_Constant(issued) == 1

\* Ids drawn from a pool of two, so that a later call is handed an id an
\* earlier call still uses.
randomUUID_Repeating(issued) == (issued % 2) + 1

(***************************************************************************)
(* randomUUID(): an id no earlier call of randomUUID returned.             *)
(***************************************************************************)
randomUUID(issued) == issued + 1

(***************************************************************************)
(* Date.now(): time passes unobserved between two reads; a read returns a  *)
(* value no smaller than the last one (the clock is not set back).         *)
(***************************************************************************)
ClockReads == now..MaxTime

\* Date.now() - startTime, for the value t that Date.now() returns.
ElapsedTime(t, startTime) == t - startTime

\* A blocked result that reports success.
createBlockedResult_Success(sessionId, elapsed, reason, riskLevel) ==
  [ success |-> TRUE,
    result |-> Undefined,
    error |-> reason,
    executionTime |-> elapsed,
    riskLevel |-> riskLevel,
    blocked |-> TRUE,
    sessionId |-> sessionId ]

createBlockedResult(sessionId, elapsed, reason, riskLevel) ==
  [ success |-> FALSE,
    result |-> Undefined,
    error |-> reason,
    executionTime |-> elapsed,
    riskLevel |-> riskLevel,
    blocked |-> TRUE,
    sessionId |-> sessionId ]

\* A gate that blocks exactly the levels above the threshold, so that a
\* critical command passes under the threshold 'critical'.
RiskGateBlocks_AboveThresholdOnly(threshold, riskLevel) ==
  RiskRank(riskLevel) > RiskRank(threshold)

\* Step 2 of executeSecurely: the condition under which the gate blocks.
RiskGateBlocks(threshold, riskLevel) ==
  \/ riskLevel = "critical"
  \/ (threshold = "high" /\ riskLevel = "high")

\* A step 3 that does not consult enableSandbox.
UseSandbox_IgnoresFlag(operationType, enableSandbox) ==
  operationType = "command"

\* Step 3 of executeSecurely: sandbox or pass-through.
UseSandbox(operationType, enableSandbox) ==
  operationType = "command" /\ enableSandbox

\* Step 3, pass-through branch: the execution result that skips the sandbox.
PassThroughResult(validation) ==
  [success |-> TRUE, result |-> validation.sanitizedInput, error |-> NoError]

\* Step 4 of executeSecurely: the result built from the execution result.
CreateResult(executionResult, elapsed, riskLevel, sessionId) ==
  [ success |-> executionResult.success,
    result |-> executionResult.result,
    error |-> executionResult.error,
    executionTime |-> elapsed,
    riskLevel |-> riskLevel,
    blocked |-> FALSE,
    sessionId |-> sessionId ]

\* The catch block of executeSecurely.
CreateFailureResult(error, elapsed, sessionId) ==
  [ success |-> FALSE,
    result |-> Undefined,
    error |-> error,
    executionTime |-> elapsed,
    riskLevel |-> "high",
    blocked |-> FALSE,
    sessionId |-> sessionId ]

\* SecurityManager.logSecurityEvent: the entry built from context and result.
AuditEntry(ctx, result) ==
  [ sessionId |-> result.sessionId,
    action |-> ctx.operationType,
    command |-> ctx.command,
    riskLevel |-> result.riskLevel,
    success |-> result.success,
    error |-> result.error,
    executionTime |-> result.executionTime ]

(***************************************************************************)
(* CodeSandbox.executeCode, up to and including its return to the caller.  *)
(***************************************************************************)
SandboxFailure(error) == [success |-> FALSE, result |-> Undefined, error |-> error]

SandboxSuccess(value) == [success |-> TRUE, result |-> value, error |-> NoError]

\* executeCode's return: success wraps the value executeInIsolation resolved
\* with, the catch block wraps the error it rejected with.
SandboxReturn(settled) ==
  IF settled.success THEN SandboxSuccess(settled.result) ELSE SandboxFailure(settled.error)

\* A 'close' handler that resolves whatever the exit code and the output.
OnChildClose_IgnoresExitCode(exit) == SandboxSuccess(ChildValue)

\* The 'close' handler of executeInProcess: how the promise settles for an
\* exit code and the text on stdout.  A kill by signal closes with code null,
\* which takes the same branch as a non-zero code.
OnChildClose(exit) ==
  CASE exit = "exit0_success" -> SandboxSuccess(ChildValue)
    [] exit = "exit0_scriptError" -> SandboxFailure("script error")
    [] exit = "exit0_unparsable" -> SandboxFailure("Failed to parse execution result")
    [] exit = "exit_nonzero" -> SandboxFailure("Process exited with code")
    [] exit = "killed" -> SandboxFailure("Process exited with code")

ChildExits ==
  {"exit0_success", "exit0_scriptError", "exit0_unparsable", "exit_nonzero", "killed"}

\* Steps 4 and 5 with the audit write started but not awaited: the result
\* is returned while the write is still pending.
AfterExecution_NoAwait(rec, executionResult, t) ==
  LET validation == validateCommand(rec.ctx.command)
      result == CreateResult(executionResult, ElapsedTime(t, rec.startTime),
                             validation.riskLevel, rec.sessionId)
  IN IF config.enableAuditLog
     THEN [rec EXCEPT !.pc = "audit", !.executionResult = executionResult,
                      !.result = result, !.auditAtStep5 = TRUE,
                      !.outcome = "resolved", !.trace = Append(@, "return")]
     ELSE [rec EXCEPT !.pc = "done", !.executionResult = executionResult,
                      !.result = result, !.outcome = "resolved",
                      !.trace = Append(@, "return")]

(***************************************************************************)
(* Steps 4 and 5 of executeSecurely, run when the execution result is at   *)
(* hand: build the result (Date.now() returns t), then either start the    *)
(* audit write or return.  After the sandbox's last await settles, the     *)
(* continuations of executeInIsolation, executeCode and executeSecurely    *)
(* run back to back and read only config.enableAuditLog, so they are one   *)
(* step.                                                                   *)
(***************************************************************************)
AfterExecution(rec, executionResult, t) ==
  LET validation == validateCommand(rec.ctx.command)
      result == CreateResult(executionResult, ElapsedTime(t, rec.startTime),
                             validation.riskLevel, rec.sessionId)
  IN IF config.enableAuditLog
     THEN [rec EXCEPT !.pc = "audit", !.executionResult = executionResult,
                      !.result = result, !.auditAtStep5 = TRUE]
     ELSE [rec EXCEPT !.pc = "done", !.executionResult = executionResult,
                      !.result = result, !.outcome = "resolved",
                      !.trace = Append(@, "return")]

(***************************************************************************)
(* executeSecurely(context): the synchronous prefix of the call, up to its *)
(* first await or its return.  startTime is the clock's value at entry; t  *)
(* is the value Date.now() returns when the result is stamped.             *)
(***************************************************************************)
ExecuteSecurelyPrefix(c, ctx, t) ==
  /\ call[c].pc = "idle"
  /\ \A d \in Calls : d < c => call[d].pc # "idle"
  /\ LET sessionId == randomUUID(nextUuid)
         started == [call[c] EXCEPT !.ctx = ctx, !.sessionId = sessionId,
                                    !.startTime = now,
                                    !.timeoutAtStart = config.sandboxTimeout]
         elapsed == ElapsedTime(t, started.startTime)
         validation == validateCommand(ctx.command)
     IN IF ~ctx.command.isString
        THEN \* context.command.substring throws before the try block
             /\ call' = [call EXCEPT ![c] =
                  [started EXCEPT !.pc = "done", !.outcome = "rejected",
                                  !.trace = <<"reject">>]]
             /\ nextUuid' = sessionId
             /\ now' = now
        ELSE IF ~validation.isValid
        THEN /\ call' = [call EXCEPT ![c] =
                  [started EXCEPT !.pc = "done", !.outcome = "resolved",
                     !.result = createBlockedResult(sessionId, elapsed,
                                   "Input validation failed", validation.riskLevel),
                     !.trace = <<"validation", "return">>]]
             /\ nextUuid' = sessionId
             /\ now' = t
        ELSE IF RiskGateBlocks(config.defaultRiskThreshold, validation.riskLevel)
        THEN /\ call' = [call EXCEPT ![c] =
                  [started EXCEPT !.pc = "done", !.outcome = "resolved",
                     !.result = createBlockedResult(sessionId, elapsed,
                                   "Risk level too high", validation.riskLevel),
                     !.trace = <<"validation", "riskGate", "return">>]]
             /\ nextUuid' = sessionId
             /\ now' = t
        ELSE IF UseSandbox(ctx.operationType, config.enableSandbox)
        THEN \* sandbox.executeCode(validation.sanitizedInput.command)
             LET sandboxId == randomUUID(sessionId)
                 inSandbox == [started EXCEPT
                                 !.sandboxId = sandboxId,
                                 !.sandboxAtExecution = config.enableSandbox,
                                 !.trace = <<"validation", "riskGate", "execution">>]
             IN /\ nextUuid' = sandboxId
                /\ now' = t
                /\ IF ~validateCode(validation.sanitizedInput).isValid
                   THEN call' = [call EXCEPT ![c] =
                          AfterExecution(inSandbox,
                                         SandboxFailure("Code validation failed"), t)]
                   ELSE call' = [call EXCEPT ![c] = [inSandbox EXCEPT !.pc = "mkdir"]]
        ELSE \* pass-through: the sanitized command is the result
             /\ nextUuid' = sessionId
             /\ now' = t
             /\ call' = [call EXCEPT ![c] =
                  AfterExecution(
                    [started EXCEPT !.sandboxAtExecution = config.enableSandbox,
                                    !.trace = <<"validation", "riskGate", "execution">>],
                    PassThroughResult(validation), t)]
  /\ UNCHANGED <<config, dirs, scripts, children, auditLog, auditWarnings, acVars, analysisVars, utilVars>>

\* executeSecurely called directly, by a caller other than handleToolCall.
ExecuteSecurely(c, ctx, t) ==
  /\ handler[c].pc = "idle"
  /\ ExecuteSecurelyPrefix(c, ctx, t)
  /\ UNCHANGED handler

(***************************************************************************)
(* CodeSandbox.executeInIsolation and executeInProcess: one step per await.*)
(***************************************************************************)
\* await fs.mkdir(tempDir): outside the try/finally, so a failure rejects
\* executeInIsolation at once and executeCode's catch block returns.
MkdirSettled(c, ok, t) ==
  /\ call[c].pc = "mkdir"
  /\ IF ok
     THEN /\ dirs' = dirs \cup {call[c].sandboxId}
          /\ call' = [call EXCEPT ![c].pc = "writeFile", ![c].mkdirs = @ + 1]
          /\ now' = now
     ELSE /\ dirs' = dirs
          /\ call' = [call EXCEPT ![c] =
                        AfterExecution(call[c], SandboxFailure("mkdir failed"), t)]
          /\ now' = t
  /\ UNCHANGED <<config, nextUuid, scripts, children, auditLog, auditWarnings, handler, acVars, analysisVars, utilVars>>

\* await fs.writeFile(scriptPath): on success executeInProcess spawns the
\* child; on failure control passes to the finally block.
WriteFileSettled(c, ok) ==
  /\ call[c].pc = "writeFile"
  /\ IF ok
     THEN /\ scripts' = scripts \cup {call[c].sandboxId}
          /\ children' = children \cup {call[c].sandboxId}
          /\ call' = [call EXCEPT ![c].pc = "child", ![c].spawns = @ + 1,
                                  ![c].spawnTimeout = SandboxOptionsTimeout]
     ELSE /\ scripts' = scripts
          /\ children' = children
          /\ call' = [call EXCEPT ![c].pc = "unlink",
                        ![c].settled = SandboxFailure("writeFile failed")]
  /\ UNCHANGED <<config, now, nextUuid, dirs, auditLog, auditWarnings, handler, acVars, analysisVars, utilVars>>

\* child.on('close'): the process is gone and the promise settles.
ChildClose(c, exit) ==
  /\ call[c].pc = "child"
  /\ children' = children \ {call[c].sandboxId}
  /\ call' = [call EXCEPT ![c].pc = "unlink", ![c].settled = OnChildClose(exit),
                          ![c].exit = exit]
  /\ UNCHANGED <<config, now, nextUuid, dirs, scripts, auditLog, auditWarnings, handler, acVars, analysisVars, utilVars>>

\* child.on('error'): the process could not be spawned; the promise rejects.
ChildError(c) ==
  /\ call[c].pc = "child"
  /\ children' = children \ {call[c].sandboxId}
  /\ call' = [call EXCEPT ![c].pc = "unlink", ![c].settled = SandboxFailure("spawn error"),
                          ![c].exit = "spawn_error"]
  /\ UNCHANGED <<config, now, nextUuid, dirs, scripts, auditLog, auditWarnings, handler, acVars, analysisVars, utilVars>>

\* A spawn that arms no timer.
SpawnKillsOnTimeout_Never(timeout) == FALSE

\* spawn's timeout option: a positive value arms a timer that kills the
\* child when it has run that long.
SpawnKillsOnTimeout(timeout) == timeout > 0

\* The timer of spawn expires while the child is still running: the child is
\* killed, 'close' fires with code null and the promise rejects.
ChildTimeout(c) ==
  /\ call[c].pc = "child"
  /\ SpawnKillsOnTimeout(call[c].spawnTimeout)
  /\ children' = children \ {call[c].sandboxId}
  /\ call' = [call EXCEPT ![c].pc = "unlink", ![c].settled = OnChildClose("killed"),
                          ![c].exit = "timeout"]
  /\ UNCHANGED <<config, now, nextUuid, dirs, scripts, auditLog, auditWarnings, handler, acVars, analysisVars, utilVars>>

\* finally: await fs.unlink(scriptPath).  It succeeds when the script exists
\* and fails when it was never written; a failure skips fs.rm, is logged as
\* a warning and swallowed, and executeCode returns.
UnlinkSettled(c, ok, t) ==
  /\ call[c].pc = "unlink"
  /\ ok <=> call[c].sandboxId \in scripts
  /\ IF ok
     THEN /\ scripts' = scripts \ {call[c].sandboxId}
          /\ call' = [call EXCEPT ![c].pc = "rm"]
          /\ now' = now
     ELSE /\ scripts' = scripts
          /\ call' = [call EXCEPT ![c] =
                        AfterExecution(call[c], SandboxReturn(call[c].settled), t)]
          /\ now' = t
  /\ UNCHANGED <<config, nextUuid, dirs, children, auditLog, auditWarnings, handler, acVars, analysisVars, utilVars>>

\* finally: await fs.rm(tempDir, {recursive, force}); then executeInIsolation
\* settles as the try block did and executeCode returns.
RmSettled(c, t) ==
  /\ call[c].pc = "rm"
  /\ dirs' = dirs \ {call[c].sandboxId}
  /\ scripts' = scripts \ {call[c].sandboxId}
  /\ call' = [call EXCEPT ![c] =
                AfterExecution(call[c], SandboxReturn(call[c].settled), t)]
  /\ now' = t
  /\ UNCHANGED <<config, nextUuid, children, auditLog, auditWarnings, handler, acVars, analysisVars, utilVars>>

(***************************************************************************)
(* The audit sink (security/audit.ts), modelled from section 4.4: a write  *)
(* either appends the entry or fails; a failure is reported on the         *)
(* operator channel and is not thrown back to the caller.                  *)
(***************************************************************************)
\* A logger that throws its write failure back to the caller.
SecurityLoggerThrows_OnFailure(writeOk) == ~writeOk

SecurityLoggerThrows(writeOk) == FALSE

\* Step 5 of executeSecurely: await this.logSecurityEvent(context, result)
\* settles, then the result is returned.  Were the logger to throw, the
\* catch block would build a failure result (Date.now() returns t) and, with
\* audit logging enabled, log once more; a throw from there rejects the call.
AuditSettled(c, writeOk, t) ==
  /\ call[c].pc \in {"audit", "catchAudit"}
  /\ IF writeOk
     THEN /\ auditLog' = Append(auditLog, AuditEntry(call[c].ctx, call[c].result))
          /\ auditWarnings' = auditWarnings
     ELSE /\ auditLog' = auditLog
          /\ auditWarnings' = auditWarnings \cup {call[c].sessionId}
  /\ IF ~SecurityLoggerThrows(writeOk)
     THEN /\ call' = [call EXCEPT ![c].pc = "done", ![c].outcome = "resolved",
                        ![c].trace = @ \o <<"audit", "return">>]
          /\ now' = now
     ELSE IF call[c].pc = "catchAudit"
     THEN /\ call' = [call EXCEPT ![c].pc = "done", ![c].outcome = "rejected",
                        ![c].trace = Append(@, "reject")]
          /\ now' = now
     ELSE /\ call' = [call EXCEPT
                        ![c].pc = IF config.enableAuditLog THEN "catchAudit" ELSE "done",
                        ![c].outcome = IF config.enableAuditLog THEN "pending"
                                       ELSE "resolved",
                        ![c].result = CreateFailureResult("audit write failed",
                                         ElapsedTime(t, call[c].startTime),
                                         call[c].sessionId),
                        ![c].trace = IF config.enableAuditLog THEN Append(@, "catch")
                                     ELSE @ \o <<"catch", "return">>]
          /\ now' = t
  /\ UNCHANGED <<config, nextUuid, dirs, scripts, children, handler, acVars, analysisVars, utilVars>>

(***************************************************************************)
(* updateConfig(newConfig).                                                *)
(***************************************************************************)
UpdateConfig(newConfig) ==
  /\ config' = MergeConfig(config, newConfig)
  /\ config' # config
  /\ UNCHANGED <<now, nextUuid, call, dirs, scripts, children, auditLog, auditWarnings, handler, acVars, analysisVars, utilVars>>

\* The awaits of call c settling.
SettleStep(c) ==
  \/ \E ok \in BOOLEAN, t \in ClockReads : MkdirSettled(c, ok, t)
  \/ \E ok \in BOOLEAN : WriteFileSettled(c, ok)
  \/ \E exit \in ChildExits : ChildClose(c, exit)
  \/ ChildError(c)
  \/ ChildTimeout(c)
  \/ \E ok \in BOOLEAN, t \in ClockReads : UnlinkSettled(c, ok, t)
  \/ \E t \in ClockReads : RmSettled(c, t)
  \/ \E writeOk \in BOOLEAN, t \in ClockReads : AuditSettled(c, writeOk, t)

\* The steps of call c.
CallStep(c) ==
  \/ \E ctx \in Contexts, t \in ClockReads : ExecuteSecurely(c, ctx, t)
  \/ SettleStep(c)

\* updateConfig, called by an operator at any point.
ConfigStep == \E newConfig \in PartialConfigs : UpdateConfig(newConfig)

\* Calls that overlap in any way, with updateConfig at any point.
Next ==
  \/ \E c \in Calls : CallStep(c)
  \/ ConfigStep

Spec == Init /\ [][Next]_vars

\* One call, with updateConfig at any point before, during and after it.
NextSingleCall ==
  \/ CallStep(1)
  \/ ConfigStep

SpecSingleCall == Init /\ [][NextSingleCall]_vars

\* updateConfig with a new sandboxTimeout.
TimeoutStep == \E newConfig \in TimeoutConfigs : UpdateConfig(newConfig)

\* One call, with updateConfig of any field, sandboxTimeout included, at
\* any point.
NextReconfigure ==
  \/ CallStep(1)
  \/ ConfigStep
  \/ TimeoutStep

SpecReconfigure == Init /\ [][NextReconfigure]_vars

\* The same, with every awaited file operation settling and the timer of
\* spawn firing; the child itself need never exit.
FairSingleCall ==
  /\ SpecSingleCall
  /\ WF_vars(\E ok \in BOOLEAN, t \in ClockReads : MkdirSettled(1, ok, t))
  /\ WF_vars(\E ok \in BOOLEAN : WriteFileSettled(1, ok))
  /\ WF_vars(ChildTimeout(1))
  /\ WF_vars(\E ok \in BOOLEAN, t \in ClockReads : UnlinkSettled(1, ok, t))
  /\ WF_vars(\E t \in ClockReads : RmSettled(1, t))
  /\ WF_vars(\E writeOk \in BOOLEAN, t \in ClockReads : AuditSettled(1, writeOk, t))

(***************************************************************************)
(* handleToolCall(request): the tool dispatcher.  Its synchronous prefix   *)
(* parses the arguments and, for three of the four tools, runs the prefix  *)
(* of executeSecurely; the await of the security result and the await of   *)
(* the live target are separate steps.                                     *)
(***************************************************************************)
\* The context handleToolCall builds for executeSecurely.
SecurityContext(request) ==
  CASE request.name = "get_electron_window_info" ->
         [command |-> Str(<<"get_window_info">>), operationType |-> "window_info"]
    [] request.name = "take_screenshot" ->
         [command |-> Str(<<"take_screenshot">>), operationType |-> "screenshot"]
    [] request.name = "send_command_to_electron" ->
         [command |-> request.command, operationType |-> "command"]

\* A catch block that reports the error without flagging it.
ErrorResponse_NotFlagged(error) ==
  [text |-> "Error executing", error |-> error, riskLevel |-> "none", isError |-> FALSE]

\* The catch block: `Error executing ${name}: ${errorMessage}`.
ErrorResponse(error) ==
  [text |-> "Error executing", error |-> error, riskLevel |-> "none", isError |-> TRUE]

UnknownToolResponse ==
  [text |-> "Unknown tool", error |-> NoError, riskLevel |-> "none", isError |-> TRUE]

\* The text returned for a blocked security result.
BlockedResponse(name, securityResult) ==
  CASE name = "get_electron_window_info" ->
         [text |-> "Operation blocked", error |-> securityResult.error,
          riskLevel |-> "none", isError |-> FALSE]
    [] name = "take_screenshot" ->
         [text |-> "Screenshot blocked", error |-> securityResult.error,
          riskLevel |-> "none", isError |-> FALSE]
    [] name = "send_command_to_electron" ->
         [text |-> "Command blocked", error |-> securityResult.error,
          riskLevel |-> securityResult.riskLevel, isError |-> FALSE]

FailedResponse(securityResult) ==
  [text |-> "Command failed", error |-> securityResult.error,
   riskLevel |-> "none", isError |-> FALSE]

TargetResponse ==
  [text |-> "result of the target", error |-> NoError, riskLevel |-> "none",
   isError |-> FALSE]

\* A send_command case that forwards a command the sandbox run failed on.
ForwardsCommand_IgnoresSuccess(securityResult) == TRUE

\* SEND_COMMAND_TO_ELECTRON, after the blocked check: the command goes to
\* the target only if the security result reports success.
ForwardsCommand(securityResult) == securityResult.success

\* The request reaches the live target: getElectronWindowInfo, takeScreenshot,
\* sendCommandToElectron or readElectronLogs is called and awaited.
ContactTarget(rec) == [rec EXCEPT !.pc = "target", !.contacts = @ + 1]

Respond(rec, response) == [rec EXCEPT !.pc = "done", !.response = response]

\* handleToolCall up to its first await or its return.
HandleToolCall(r, request, t) ==
  /\ handler[r].pc = "idle"
  /\ call[r].pc = "idle"
  /\ LET rec == [handler[r] EXCEPT !.request = request] IN
     IF request.name \notin ToolNames
     THEN /\ handler' = [handler EXCEPT ![r] = Respond(rec, UnknownToolResponse)]
          /\ UNCHANGED <<managerVars, acVars, analysisVars, utilVars>>
     ELSE IF request.name = "read_electron_logs"
     THEN \* ReadElectronLogsSchema.parse(args), then readElectronLogs
          /\ handler' = [handler EXCEPT ![r] =
               IF request.argsValid THEN ContactTarget(rec)
               ELSE Respond(rec, ErrorResponse("ZodError"))]
          /\ UNCHANGED <<managerVars, acVars, analysisVars, utilVars>>
     ELSE IF request.name # "take_screenshot" /\ ~request.argsValid
     THEN \* the schema is parsed before executeSecurely is called
          /\ handler' = [handler EXCEPT ![r] = Respond(rec, ErrorResponse("ZodError"))]
          /\ UNCHANGED <<managerVars, acVars, analysisVars, utilVars>>
     ELSE /\ handler' = [handler EXCEPT ![r] = [rec EXCEPT !.pc = "security"]]
          /\ ExecuteSecurelyPrefix(r, SecurityContext(request), t)

\* await securityManager.executeSecurely(...) settles and the case goes on.
SecurityReturned(r) ==
  /\ handler[r].pc = "security"
  /\ call[r].pc = "done"
  /\ LET rec == handler[r]
         name == rec.request.name
         securityResult == call[r].result
     IN handler' = [handler EXCEPT ![r] =
          IF call[r].outcome = "rejected"
          THEN Respond(rec, ErrorResponse("TypeError"))
          ELSE IF securityResult.blocked
          THEN Respond(rec, BlockedResponse(name, securityResult))
          ELSE IF name = "send_command_to_electron" /\ ~ForwardsCommand(securityResult)
          THEN Respond(rec, FailedResponse(securityResult))
          ELSE IF name = "take_screenshot" /\ ~rec.request.argsValid
          THEN \* TakeScreenshotSchema.parse(args) throws after the security check
               Respond(rec, ErrorResponse("ZodError"))
          ELSE ContactTarget(rec)]
  /\ UNCHANGED <<managerVars, acVars, analysisVars, utilVars>>

\* takeScreenshot(outputPath, windowTitle): the capture, by the debugging
\* port or by the platform's tool, is written to finalPath; no step of it
\* looks at what the path is.
TakeScreenshot(rec, ok) ==
  IF rec.request.name = "take_screenshot" /\ ok
  THEN [rec EXCEPT !.written = FinalPath(rec.request.outputPath)]
  ELSE rec

\* The awaited call to the target settles: its value is returned, or its
\* error is caught and reported.
TargetSettled(r, ok) ==
  /\ handler[r].pc = "target"
  /\ handler' = [handler EXCEPT ![r] =
       Respond(TakeScreenshot(handler[r], ok),
               IF ok THEN TargetResponse ELSE ErrorResponse("target error"))]
  /\ UNCHANGED <<managerVars, acVars, analysisVars, utilVars>>

\* The steps of request r.
HandlerStep(r) ==
  \/ \E request \in ToolRequests, t \in ClockReads : HandleToolCall(r, request, t)
  \/ SettleStep(r)
  \/ SecurityReturned(r)
  \/ \E ok \in BOOLEAN : TargetSettled(r, ok)

\* One tool request, with updateConfig at any point before, during and
\* after it.
NextToolCall ==
  \/ HandlerStep(1)
  \/ ConfigStep

SpecToolCall == Init /\ [][NextToolCall]_vars

\* Every awaited operation of the request settles: the file system and the
\* audit sink answer, the child is killed at its timeout at the latest, and
\* the calls to the target answer or run into their own timeout.
FairToolCall ==
  /\ SpecToolCall
  /\ WF_vars(\E ok \in BOOLEAN, t \in ClockReads : MkdirSettled(1, ok, t))
  /\ WF_vars(\E ok \in BOOLEAN : WriteFileSettled(1, ok))
  /\ WF_vars(ChildTimeout(1))
  /\ WF_vars(\E ok \in BOOLEAN, t \in ClockReads : UnlinkSettled(1, ok, t))
  /\ WF_vars(\E t \in ClockReads : RmSettled(1, t))
  /\ WF_vars(\E writeOk \in BOOLEAN, t \in ClockReads : AuditSettled(1, writeOk, t))
  /\ WF_vars(SecurityReturned(1))
  /\ WF_vars(\E ok \in BOOLEAN : TargetSettled(1, ok))

(***************************************************************************)
(* AccessControl: users, sessions and permissions.  Every method runs to   *)
(* completion without an await, so each call is one step.  A call that is  *)
(* not a session access clears acReturn.                                   *)
(***************************************************************************)
Min(S) == CHOOSE x \in S : \A y \in S : x <= y

\* Array.from(this.users.values()).find(pred): the first match in insertion
\* order, 0 when there is none.
FirstUser(matches) == IF matches = {} THEN 0 ELSE Min(matches)

UserByName(username) ==
  FirstUser({i \in 1..Len(users) : users[i].username = username})

UserByApiKey(apiKey) ==
  FirstUser({i \in 1..Len(users) : users[i].apiKey = apiKey})

\* this.users.get(userId)
UserById(userId) ==
  FirstUser({i \in 1..Len(users) : users[i].id = userId})

UserIds == {users[i].id : i \in 1..Len(users)}

\* The session ids handed out so far, whether or not still in the table.
IssuedSessionIds == DOMAIN acHistory.issuedWith

\* The ids callers present: every id ever issued, and one never issued.
PresentedSessionIds == IssuedSessionIds \cup {0}

\* The API keys callers present: every key ever generated, and one never
\* generated.
PresentedApiKeys == {generateApiKey(k) : k \in 0..acIssued}

\* this.sessions.set(sessionId, session)
SetSession(table, sessionId, session) ==
  [k \in DOMAIN table \cup {sessionId} |->
     IF k = sessionId THEN session ELSE table[k]]

\* this.sessions.delete for every id in gone
DeleteSessions(table, gone) == [k \in DOMAIN table \ gone |-> table[k]]

\* An inactivity check that expires a session at exactly the timeout.
Expired_AtTimeout(t, lastActivity) == t - lastActivity >= SessionTimeout

\* now.getTime() - session.lastActivity.getTime() > this.sessionTimeout
Expired(t, lastActivity) == t - lastActivity > SessionTimeout

\* session.isValid = false, for every session of the table in ids.
MarkInvalid(table, ids) ==
  [k \in DOMAIN table |->
     IF k \in ids THEN [table[k] EXCEPT !.isValid = FALSE] ELSE table[k]]

SessionsOfUser(table, userId) == {k \in DOMAIN table : table[k].userId = userId}

\* getValidSession(sessionId) succeeds: the session is in the table, valid
\* and not expired.
SessionAccepted(sessionId) ==
  /\ sessionId \in DOMAIN sessions
  /\ sessions[sessionId].isValid
  /\ ~Expired(acNow, sessions[sessionId].lastActivity)

\* The session table after getValidSession(sessionId): an expired session
\* is invalidated, an accepted one has its lastActivity set to now.
SessionsAfterAccess(sessionId) ==
  IF sessionId \notin DOMAIN sessions \/ ~sessions[sessionId].isValid THEN sessions
  ELSE IF Expired(acNow, sessions[sessionId].lastActivity)
       THEN MarkInvalid(sessions, {sessionId})
       ELSE [sessions EXCEPT ![sessionId].lastActivity = acNow]

\* The checkRateLimit calls made so far at the present instant with an
\* accepted session of the user.
ChecksMade(userId) ==
  IF userId \in DOMAIN acHistory.checks /\ acHistory.checks[userId].at = acNow
  THEN acHistory.checks[userId].n
  ELSE 0

ChecksAfter(userId) ==
  [k \in DOMAIN acHistory.checks \cup {userId} |->
     IF k = userId THEN [at |-> acNow, n |-> ChecksMade(userId) + 1]
     ELSE acHistory.checks[k]]

\* RateLimiter (security/validation.ts): one window per key; a window
\* opens at the first request after the previous one has closed.
WindowOpen(key, windowMs) ==
  /\ key \in DOMAIN limiter
  /\ (acNow - limiter[key].windowStart) * UnitMs < windowMs

RequestsInWindow(key, windowMs) ==
  IF WindowOpen(key, windowMs) THEN limiter[key].count ELSE 0

\* rateLimiter.checkLimit(key, maxRequests, windowMs): the answer.
checkLimit(key, maxRequests, windowMs) ==
  RequestsInWindow(key, windowMs) < maxRequests

\* rateLimiter.checkLimit(key, maxRequests, windowMs): the limiter after it.
LimiterAfter(key, maxRequests, windowMs) ==
  IF ~checkLimit(key, maxRequests, windowMs) THEN limiter
  ELSE [k \in DOMAIN limiter \cup {key} |->
          IF k = key
          THEN [ windowStart |-> IF WindowOpen(key, windowMs)
                                 THEN limiter[key].windowStart ELSE acNow,
                 count |-> RequestsInWindow(key, windowMs) + 1 ]
          ELSE limiter[k]]

\* A limiter keyed by the session instead of the user.
LimiterKey_PerSession(sessionId) == sessionId

\* checkRateLimit passes session.userId as the limiter's key.
LimiterKey(sessionId) == sessions[sessionId].userId

\* The history after sessions ids were invalidated.
Revoke(ids) == [acHistory EXCEPT !.revoked = @ \cup ids]

\* getValidSession as the first statement of a session access, with the
\* value the access returns.
Access(op, sessionId, arg, value) ==
  /\ sessions' = SessionsAfterAccess(sessionId)
  /\ acHistory' =
       IF sessionId \in DOMAIN sessions /\ sessions[sessionId].isValid
            /\ Expired(acNow, sessions[sessionId].lastActivity)
       THEN [Revoke({sessionId}) EXCEPT !.expired = @ \cup {sessionId}]
       ELSE IF op = "checkRateLimit" /\ SessionAccepted(sessionId)
       THEN [acHistory EXCEPT !.checks =
               ChecksAfter(sessions[sessionId].userId)]
       ELSE acHistory
  /\ acReturn' = [NoReturn EXCEPT !.op = op, !.sessionId = sessionId, !.arg = arg,
                                  !.sessionOk = SessionAccepted(sessionId),
                                  !.value = value]
  /\ UNCHANGED <<acNow, users, permArrays, acIssued, managerVars, handler, analysisVars, utilVars>>

\* The windows of the limiter that are still open at time t.  A window
\* that has closed is never read again: the limiter is kept without it.
OpenWindows(t) ==
  [k \in {j \in DOMAIN limiter : (t - limiter[j].windowStart) * UnitMs < WindowMs}
     |-> limiter[k]]

\* Time passes.
AcTick ==
  /\ acNow < MaxAcTime
  /\ acNow' = acNow + 1
  /\ limiter' = OpenWindows(acNow + 1)
  /\ acHistory' = [acHistory EXCEPT !.checks =
       [k \in {j \in DOMAIN @ : @[j].at = acNow + 1} |-> @[k]]]
  /\ acReturn' = NoReturn
  /\ UNCHANGED <<users, sessions, permArrays, acIssued, managerVars, handler, analysisVars, utilVars>>

\* The session both authenticate methods create for user u: it holds the
\* user's permissions array itself, not a copy.
IssueSession(u, attempt) ==
  LET sessionId == acIssued + 1 IN
  /\ Cardinality(IssuedSessionIds) < MaxSessions
  /\ sessions' = SetSession(sessions, sessionId,
       [ userId |-> users[u].id,
         lastActivity |-> acNow,
         permissions |-> users[u].permissions,
         isValid |-> TRUE ])
  /\ acIssued' = sessionId
  /\ acHistory' = [acHistory EXCEPT !.issuedWith =
       [k \in DOMAIN @ \cup {sessionId} |->
          IF k = sessionId THEN permArrays[users[u].permissions] ELSE @[k]]]
  /\ acReturn' = [attempt EXCEPT !.sessionId = sessionId, !.value = TRUE]
  /\ UNCHANGED <<acNow, users, permArrays, limiter, managerVars, handler, analysisVars, utilVars>>

\* createUser: the user gets a fresh id and a fresh API key and keeps the
\* caller's permissions array and rate limit; it is active.
CreateUser(username, password, permissions, rateLimit) ==
  /\ Len(users) < MaxUsers
  /\ Len(permArrays) < MaxArrays
  /\ users' = Append(users,
       [ id |-> acIssued + 1,
         username |-> username,
         hashedPassword |-> hashPassword(password),
         permissions |-> Len(permArrays) + 1,
         rateLimit |-> rateLimit,
         isActive |-> TRUE,
         apiKey |-> generateApiKey(acIssued + 2) ])
  /\ permArrays' = Append(permArrays, permissions)
  /\ acIssued' = acIssued + 2
  /\ acReturn' = NoReturn
  /\ UNCHANGED <<acNow, sessions, acHistory, limiter, managerVars, handler, analysisVars, utilVars>>

\* An API key generator that hands out the key the user already has.
generateApiKey_Unchanged(current, uuid) == current

\* user.apiKey = this.generateApiKey()
RegeneratedApiKey(current, uuid) == generateApiKey(uuid)

\* regenerateApiKey: the user's key is replaced by a fresh one.
RegenerateApiKey(userId) ==
  LET u == UserById(userId) IN
  /\ u # 0
  /\ Cardinality(acHistory.oldKeys) < MaxKeys
  /\ users' = [users EXCEPT ![u].apiKey = RegeneratedApiKey(@, acIssued + 1)]
  /\ acIssued' = acIssued + 1
  /\ acHistory' = [acHistory EXCEPT !.oldKeys =
       @ \cup {[userId |-> userId, apiKey |-> users[u].apiKey]}]
  /\ acReturn' = NoReturn
  /\ UNCHANGED <<acNow, sessions, permArrays, limiter, managerVars, handler, analysisVars, utilVars>>

\* A failed authentication returns null and touches nothing.
AuthenticationFails(attempt) ==
  /\ acReturn' = attempt
  /\ UNCHANGED <<acNow, users, sessions, permArrays, acIssued, acHistory,
                 limiter, managerVars, handler, analysisVars, utilVars>>

AuthenticateUser(username, password) ==
  LET u == UserByName(username)
      attempt == [NoReturn EXCEPT !.op = "authenticateUser", !.arg = username,
                                  !.password = password]
  IN IF u = 0 \/ ~users[u].isActive THEN AuthenticationFails(attempt)
     ELSE IF ~verifyPassword(password, users[u].hashedPassword)
          THEN AuthenticationFails(attempt)
          ELSE IssueSession(u, attempt)

AuthenticateApiKey(apiKey) ==
  LET u == UserByApiKey(apiKey)
      attempt == [NoReturn EXCEPT !.op = "authenticateApiKey", !.apiKey = apiKey]
  IN IF u = 0 \/ ~users[u].isActive THEN AuthenticationFails(attempt)
     ELSE IssueSession(u, attempt)

GetValidSession(sessionId) ==
  /\ Access("getValidSession", sessionId, "none", SessionAccepted(sessionId))
  /\ UNCHANGED limiter

\* A permission check without the admin wildcard.
HasPermission_NoAdminWildcard(sessionId, permission) ==
  /\ Access("hasPermission", sessionId, permission,
            /\ SessionAccepted(sessionId)
            /\ permission \in permArrays[sessions[sessionId].permissions])
  /\ UNCHANGED limiter

HasPermission(sessionId, permission) ==
  /\ Access("hasPermission", sessionId, permission,
            /\ SessionAccepted(sessionId)
            /\ \/ "admin" \in permArrays[sessions[sessionId].permissions]
               \/ permission \in permArrays[sessions[sessionId].permissions])
  /\ UNCHANGED limiter

\* checkRateLimit: false without a valid session or without its user,
\* otherwise the limiter's answer for the user's rate limit.
CheckRateLimit(sessionId) ==
  LET found == /\ SessionAccepted(sessionId)
               /\ UserById(sessions[sessionId].userId) # 0
      rateLimit == users[UserById(sessions[sessionId].userId)].rateLimit
  IN /\ SessionAccepted(sessionId) =>
          ChecksMade(sessions[sessionId].userId) < MaxChecks
     /\ Access("checkRateLimit", sessionId, "none",
               /\ found
               /\ checkLimit(LimiterKey(sessionId), rateLimit.maxRequests,
                             rateLimit.windowMs))
     /\ limiter' = IF found
                   THEN LimiterAfter(LimiterKey(sessionId), rateLimit.maxRequests,
                                     rateLimit.windowMs)
                   ELSE limiter

GetUserBySession(sessionId) ==
  /\ Access("getUserBySession", sessionId, "none",
            /\ SessionAccepted(sessionId)
            /\ UserById(sessions[sessionId].userId) # 0)
  /\ UNCHANGED limiter

InvalidateSession(sessionId) ==
  /\ sessions' = MarkInvalid(sessions, {sessionId})
  /\ acHistory' = Revoke({sessionId} \cap DOMAIN sessions)
  /\ acReturn' = NoReturn
  /\ UNCHANGED <<acNow, users, permArrays, acIssued, limiter, managerVars, handler, analysisVars, utilVars>>

InvalidateAllSessions(userId) ==
  /\ sessions' = MarkInvalid(sessions, SessionsOfUser(sessions, userId))
  /\ acHistory' = Revoke(SessionsOfUser(sessions, userId))
  /\ acReturn' = NoReturn
  /\ UNCHANGED <<acNow, users, permArrays, acIssued, limiter, managerVars, handler, analysisVars, utilVars>>

\* An update that overwrites the user's array in place and leaves the
\* user's sessions alone.
UpdateUserPermissions_InPlace(userId, permissions) ==
  LET u == UserById(userId) IN
  /\ u # 0
  /\ permArrays' = [permArrays EXCEPT ![users[u].permissions] = permissions]
  /\ acHistory' = [acHistory EXCEPT !.outdated = @ \cup SessionsOfUser(sessions, userId)]
  /\ acReturn' = NoReturn
  /\ UNCHANGED <<acNow, users, sessions, acIssued, limiter, managerVars, handler, analysisVars, utilVars>>

\* updateUserPermissions(userId, permissions), for a user that exists: the
\* user is given the caller's array and all its sessions are invalidated.
UpdateUserPermissions(userId, permissions) ==
  LET u == UserById(userId) IN
  /\ u # 0
  /\ Len(permArrays) < MaxArrays
  /\ permArrays' = Append(permArrays, permissions)
  /\ users' = [users EXCEPT ![u].permissions = Len(permArrays) + 1]
  /\ sessions' = MarkInvalid(sessions, SessionsOfUser(sessions, userId))
  /\ acHistory' = [Revoke(SessionsOfUser(sessions, userId)) EXCEPT
                     !.outdated = @ \cup SessionsOfUser(sessions, userId)]
  /\ acReturn' = NoReturn
  /\ UNCHANGED <<acNow, acIssued, limiter, managerVars, handler, analysisVars, utilVars>>

\* A deactivation that leaves the user's sessions as they are.
DeactivateUser_KeepsSessions(userId) ==
  LET u == UserById(userId) IN
  /\ u # 0
  /\ users[u].isActive
  /\ users' = [users EXCEPT ![u].isActive = FALSE]
  /\ acReturn' = NoReturn
  /\ UNCHANGED <<acNow, sessions, permArrays, acIssued, acHistory, limiter,
                 managerVars, handler, analysisVars, utilVars>>

DeactivateUser(userId) ==
  LET u == UserById(userId) IN
  /\ u # 0
  /\ users[u].isActive
  /\ users' = [users EXCEPT ![u].isActive = FALSE]
  /\ sessions' = MarkInvalid(sessions, SessionsOfUser(sessions, userId))
  /\ acHistory' = Revoke(SessionsOfUser(sessions, userId))
  /\ acReturn' = NoReturn
  /\ UNCHANGED <<acNow, permArrays, acIssued, limiter, managerVars, handler, analysisVars, utilVars>>

\* An activation that also turns the user's sessions valid again.
ActivateUser_RevalidatesSessions(userId) ==
  LET u == UserById(userId) IN
  /\ u # 0
  /\ ~users[u].isActive
  /\ users' = [users EXCEPT ![u].isActive = TRUE]
  /\ sessions' = [k \in DOMAIN sessions |->
       IF sessions[k].userId = userId THEN [sessions[k] EXCEPT !.isValid = TRUE]
       ELSE sessions[k]]
  /\ acReturn' = NoReturn
  /\ UNCHANGED <<acNow, permArrays, acIssued, acHistory, limiter, managerVars, handler, analysisVars, utilVars>>

ActivateUser(userId) ==
  LET u == UserById(userId) IN
  /\ u # 0
  /\ ~users[u].isActive
  /\ users' = [users EXCEPT ![u].isActive = TRUE]
  /\ acReturn' = NoReturn
  /\ UNCHANGED <<acNow, sessions, permArrays, acIssued, acHistory, limiter, managerVars, handler, analysisVars, utilVars>>

\* A cleanup test that takes every session not used at this instant.
Stale_Idle(k) == sessions[k].lastActivity < acNow

\* !session.isValid || now - session.lastActivity > this.sessionTimeout
Stale(k) == ~sessions[k].isValid \/ Expired(acNow, sessions[k].lastActivity)

\* The hourly timer of startSessionCleanup: sessions that are invalid or
\* idle longer than the timeout are deleted from the table.
SessionCleanup ==
  LET gone == {k \in DOMAIN sessions : Stale(k)}
  IN /\ gone # {}
     /\ sessions' = DeleteSessions(sessions, gone)
     /\ acReturn' = NoReturn
     /\ UNCHANGED <<acNow, users, permArrays, acIssued, acHistory, limiter, managerVars, handler, analysisVars, utilVars>>

NextAccessControl ==
  \/ AcTick
  \/ \E username \in Usernames, password \in Passwords :
        AuthenticateUser(username, password)
  \/ \E apiKey \in PresentedApiKeys : AuthenticateApiKey(apiKey)
  \/ \E sessionId \in PresentedSessionIds : GetValidSession(sessionId)
  \/ \E sessionId \in PresentedSessionIds, permission \in RequestedPermissions :
        HasPermission(sessionId, permission)
  \/ \E sessionId \in PresentedSessionIds :
        limiter = <<>> /\ CheckRateLimit(sessionId)
  \/ \E sessionId \in PresentedSessionIds : GetUserBySession(sessionId)
  \/ \E sessionId \in IssuedSessionIds : InvalidateSession(sessionId)
  \/ \E userId \in UserIds : InvalidateAllSessions(userId)
  \/ \E userId \in UserIds, permissions \in PermissionArrays :
        UpdateUserPermissions(userId, permissions)
  \/ \E userId \in UserIds : DeactivateUser(userId)
  \/ \E userId \in UserIds : ActivateUser(userId)
  \/ SessionCleanup

SpecAccessControl == Init /\ [][NextAccessControl]_vars

\* Provisioned users, each with its own rate limit, and their sessions.
NextRateLimit ==
  \/ AcTick
  \/ \E password \in Passwords, rateLimit \in RateLimits :
        CreateUser("alice", password, DefaultPermissions, rateLimit)
  \/ \E username \in Usernames, password \in Passwords :
        AuthenticateUser(username, password)
  \/ \E apiKey \in PresentedApiKeys : AuthenticateApiKey(apiKey)
  \/ \E sessionId \in PresentedSessionIds : CheckRateLimit(sessionId)
  \/ \E sessionId \in IssuedSessionIds : InvalidateSession(sessionId)

SpecRateLimit == Init /\ [][NextRateLimit]_vars

\* The cleanup timer among logins, session checks and revocations.
NextCleanup ==
  \/ AcTick
  \/ \E username \in Usernames, password \in Passwords :
        AuthenticateUser(username, password)
  \/ \E apiKey \in PresentedApiKeys : AuthenticateApiKey(apiKey)
  \/ \E sessionId \in PresentedSessionIds, permission \in RequestedPermissions :
        HasPermission(sessionId, permission)
  \/ \E sessionId \in PresentedSessionIds : CheckRateLimit(sessionId)
  \/ \E sessionId \in IssuedSessionIds : InvalidateSession(sessionId)
  \/ SessionCleanup

SpecCleanup == Init /\ [][NextCleanup]_vars

\* setInterval fires the cleanup again and again for as long as the
\* process runs.
FairCleanup == SpecCleanup /\ WF_vars(SessionCleanup)

\* Credentials: provisioning, key rotation, activation and both logins.
NextAuthentication ==
  \/ \E password \in Passwords :
        CreateUser("alice", password, DefaultPermissions,
                   [maxRequests |-> 100, windowMs |-> WindowMs])
  \/ \E userId \in UserIds : RegenerateApiKey(userId)
  \/ \E userId \in UserIds : DeactivateUser(userId)
  \/ \E userId \in UserIds : ActivateUser(userId)
  \/ \E username \in Usernames \cup {"mallory"}, password \in Passwords :
        AuthenticateUser(username, password)
  \/ \E apiKey \in PresentedApiKeys : AuthenticateApiKey(apiKey)
  \/ \E sessionId \in PresentedSessionIds : GetValidSession(sessionId)

SpecAuthentication == Init /\ [][NextAuthentication]_vars

(***************************************************************************)
(* Properties of executeSecurely.                                          *)
(***************************************************************************)
Started(c) == call[c].pc # "idle"

Returned(c) == call[c].pc = "done" /\ call[c].outcome = "resolved"

Validation(c) == validateCommand(call[c].ctx.command)

SandboxInvoked(c) == call[c].sandboxId # 0

AuditEntriesOf(sessionId) == {i \in 1..Len(auditLog) : auditLog[i].sessionId = sessionId}

\* A step of executeSecurely's synchronous prefix, taken by call c on a
\* command that passes validation.
PassesValidation(c) ==
  /\ call[c].pc = "idle"
  /\ call'[c].pc # "idle"
  /\ call'[c].ctx.command.isString
  /\ validateCommand(call'[c].ctx.command).isValid

\* C1: a call whose validated risk level is critical returns blocked = true
\* and success = false, whatever the threshold is and however updateConfig
\* was called before.
C1_CriticalAlwaysBlocked ==
  \A c \in Calls :
    (Started(c) /\ call[c].ctx.command.isString /\ Validation(c).riskLevel = "critical")
      => /\ Returned(c)
         /\ call[c].result.blocked
         /\ ~call[c].result.success

C1_Witness ==
  \E c \in Calls :
    /\ config.defaultRiskThreshold = "critical"
    /\ Returned(c)
    /\ Validation(c).isValid
    /\ Validation(c).riskLevel = "critical"
    /\ call[c].result.error = "Risk level too high"

\* C2: a call that passes validation with a risk level strictly above the
\* configured threshold (low < medium < high < critical) returns blocked.
C2_AboveThresholdBlocked ==
  [][\A c \in Calls :
       (/\ PassesValidation(c)
        /\ RiskRank(validateCommand(call'[c].ctx.command).riskLevel)
             > RiskRank(config.defaultRiskThreshold))
         => (call'[c].pc = "done" /\ call'[c].result.blocked)]_vars

\* C3: a call that passes validation with a non-critical risk level at or
\* below the configured threshold is not blocked by the risk gate.
C3_AtOrBelowThresholdNotBlocked ==
  [][\A c \in Calls :
       (/\ PassesValidation(c)
        /\ validateCommand(call'[c].ctx.command).riskLevel # "critical"
        /\ RiskRank(validateCommand(call'[c].ctx.command).riskLevel)
             <= RiskRank(config.defaultRiskThreshold))
         => ~call'[c].result.blocked]_vars

\* C4: a result with blocked = true has success = false, and the call that
\* returned it never invoked the sandbox: it created no scratch directory and
\* spawned no child process.
C4_BlockedNeverExecuted ==
  \A c \in Calls :
    call[c].result.blocked
      => /\ ~call[c].result.success
         /\ ~SandboxInvoked(c)
         /\ call[c].mkdirs = 0
         /\ call[c].spawns = 0
         /\ "execution" \notin Range(call[c].trace)

C4_Witness ==
  \E c, d \in Calls :
    /\ call[c].result.blocked
    /\ call[c].result.error = "Input validation failed"
    /\ call[d].result.blocked
    /\ call[d].result.error = "Risk level too high"

\* C5: every call that has returned has exactly one audit entry with the
\* session id of its result, whether it was blocked, succeeded or failed.
C5_OneAuditEntryPerCall ==
  \A c \in Calls :
    Returned(c) => Cardinality(AuditEntriesOf(call[c].result.sessionId)) = 1

\* C6: a call whose audit write failed still resolves, with the success,
\* result, blocked and riskLevel values of the result built before the write:
\* those of the execution result and of the validation.
C6_AuditFailureKeepsResult ==
  \A c \in Calls :
    call[c].sessionId \in auditWarnings
      => /\ call[c].outcome # "rejected"
         /\ call[c].pc = "done" => call[c].outcome = "resolved"
         /\ call[c].result.success = call[c].executionResult.success
         /\ call[c].result.result = call[c].executionResult.result
         /\ call[c].result.blocked = FALSE
         /\ call[c].result.riskLevel = Validation(c).riskLevel

C6_Witness ==
  \E c \in Calls :
    /\ call[c].sessionId \in auditWarnings
    /\ Returned(c)
    /\ call[c].spawns = 1
    /\ call[c].result.success
    /\ call[c].result.result = ChildValue

\* C7: executeSecurely never rejects, and a command that is the empty string
\* or not a string at all resolves with blocked = true.
C7_NeverRejects ==
  \A c \in Calls :
    /\ call[c].outcome # "rejected"
    /\ (call[c].pc = "done"
        /\ (~call[c].ctx.command.isString \/ call[c].ctx.command.toks = <<>>))
         => (Returned(c) /\ call[c].result.blocked)

\* C8: the steps of a call occur in the order validation, risk gate,
\* execution, audit write, return; execution (the sandbox included) starts
\* only after validation and the risk gate have passed; and a result built
\* with audit logging enabled is returned only after its audit write has
\* completed.
StepRank(step) ==
  CASE step = "validation" -> 1
    [] step = "riskGate" -> 2
    [] step = "execution" -> 3
    [] step = "audit" -> 4
    [] step = "catch" -> 4
    [] step = "return" -> 5
    [] step = "reject" -> 5

C9_SandboxIffCommandAndEnabled ==
  \A c \in Calls :
    "execution" \in Range(call[c].trace)
      => /\ SandboxInvoked(c)
              <=> (call[c].ctx.operationType = "command" /\ call[c].sandboxAtExecution)
         /\ ~SandboxInvoked(c)
              => /\ call[c].mkdirs = 0
                 /\ call[c].spawns = 0
                 /\ call[c].pc \in {"audit", "done"}
                 /\ call[c].result.success
                 /\ ~call[c].result.blocked
                 /\ call[c].result.result = SanitizeCommand(call[c].ctx.command.toks)

C9_Witness ==
  \E c, d \in Calls :
    /\ Returned(c)
    /\ call[c].ctx.operationType = "command"
    /\ ~call[c].sandboxAtExecution
    /\ call[c].result.result # call[c].ctx.command.toks
    /\ Returned(d)
    /\ call[d].ctx.operationType = "screenshot"
    /\ call[d].sandboxAtExecution
    /\ ~SandboxInvoked(d)

\* C10: every returned result carries a session id, a risk level and a
\* non-negative execution time, and no two calls, one after the other or
\* overlapping, have the same session id.
C10_ResultStampedDistinctIds ==
  /\ \A c \in Calls :
       Returned(c)
         => /\ call[c].result.sessionId = call[c].sessionId
            /\ call[c].result.sessionId \in 1..nextUuid
            /\ call[c].result.riskLevel \in RiskLevels
            /\ call[c].result.executionTime >= 0
  /\ \A c, d \in Calls :
       (c # d /\ Started(c) /\ Started(d)) => call[c].sessionId # call[d].sessionId

C10_Witness ==
  \E c, d \in Calls :
    /\ call[c].pc = "child"
    /\ Returned(d)
    /\ call[d].result.executionTime > 0
    /\ call[d].startTime >= call[c].startTime
    /\ call[d].sessionId > call[c].sessionId

(***************************************************************************)
(* Properties of handleToolCall.                                           *)
(***************************************************************************)
\* C11: a request of any caller-facing tool reaches the live target only
\* after an executeSecurely call for that request has returned with
\* blocked = false.
C11_TargetOnlyAfterSecurity ==
  \A r \in Calls :
    handler[r].contacts > 0 => (Returned(r) /\ ~call[r].result.blocked)

\* C12: a send_command_to_electron request is forwarded to the target at
\* most once, and only after executeSecurely returned blocked = false and
\* success = true; a blocked result is answered 'Command blocked' with the
\* risk level and an unsuccessful one 'Command failed', with nothing
\* forwarded in either case.
C12_SendCommandForwardedOnce ==
  \A r \in Calls :
    handler[r].request.name = "send_command_to_electron" =>
      /\ handler[r].contacts <= 1
      /\ handler[r].contacts = 1 =>
           (Returned(r) /\ ~call[r].result.blocked /\ call[r].result.success)
      /\ (handler[r].pc = "done" /\ Returned(r) /\ call[r].result.blocked) =>
           /\ handler[r].response.text = "Command blocked"
           /\ handler[r].response.riskLevel = call[r].result.riskLevel
           /\ handler[r].contacts = 0
      /\ (handler[r].pc = "done" /\ Returned(r) /\ ~call[r].result.blocked
            /\ ~call[r].result.success) =>
           /\ handler[r].response.text = "Command failed"
           /\ handler[r].contacts = 0

\* A command passed the sandbox run and was forwarded, and the target's
\* answer was returned.
C12_Witness ==
  \E r \in Calls :
    /\ handler[r].request.name = "send_command_to_electron"
    /\ handler[r].pc = "done"
    /\ handler[r].contacts = 1
    /\ SandboxInvoked(r)
    /\ call[r].result.success
    /\ handler[r].response = TargetResponse

(***************************************************************************)
(* Properties of CodeSandbox.executeCode, as driven by executeSecurely.    *)
(***************************************************************************)
\* executeCode of call c is waiting on one of its awaits.
InSandbox(c) == call[c].pc \in {"mkdir", "writeFile", "child", "unlink", "rm"}

\* executeCode of call c has returned its SandboxResult.
ExecuteCodeReturned(c) == SandboxInvoked(c) /\ ~InSandbox(c)

\* The code handed to executeCode by call c matches none of the sandbox's
\* three deny lists.
CodeValid(c) ==
  Range(Validation(c).sanitizedInput)
    \cap (BlacklistedFunctionCalls \cup BlacklistedObjects \cup DangerousPatterns) = {}

\* C13: every executeCode call eventually returns a SandboxResult; a child
\* that has not exited when the timeout expires is killed and the result
\* is a failure, as it is after a spawn error, a failed mkdir or a failed
\* script write.
C13_ExecuteCodeAlwaysResolves ==
  /\ [](\A c \in Calls :
          ExecuteCodeReturned(c) =>
            /\ call[c].outcome # "rejected"
            /\ (call[c].executionResult.success
                  \/ call[c].executionResult.error # NoError)
            /\ (call[c].exit \in {"timeout", "spawn_error"} \/ call[c].spawns = 0)
                 => ~call[c].executionResult.success)
  /\ \A c \in Calls : InSandbox(c) ~> ExecuteCodeReturned(c)

\* The child was killed by the timer and the call returned a failure.
C13_Witness ==
  \E c \in Calls :
    /\ Returned(c)
    /\ call[c].exit = "timeout"
    /\ ~call[c].result.success
    /\ call[c].result.error = "Process exited with code"

\* C14: executeCode reports success only for a child that exited with code
\* 0 and printed a result object with success true; any other end of the
\* child is a failure; a call spawns at most one child.
C14_SuccessOnlyFromCleanExit ==
  \A c \in Calls :
    /\ call[c].spawns <= 1
    /\ ExecuteCodeReturned(c) =>
         /\ call[c].executionResult.success => call[c].exit = "exit0_success"
         /\ call[c].exit \in {"exit_nonzero", "killed", "timeout", "spawn_error",
                              "exit0_unparsable", "exit0_scriptError"}
              => ~call[c].executionResult.success

\* A child crashed with a non-zero code and the call returned a failure.
C14_Witness ==
  \E c \in Calls :
    /\ Returned(c)
    /\ call[c].exit = "exit_nonzero"
    /\ call[c].spawns = 1
    /\ ~call[c].result.success

\* C15: once executeCode has returned, neither the scratch directory of
\* that execution nor its script file is on disk, whatever the outcome.
C15_NoScratchFilesRemain ==
  \A c \in Calls :
    ExecuteCodeReturned(c) =>
      (call[c].sandboxId \notin dirs /\ call[c].sandboxId \notin scripts)

\* C16: code the static validation rejects yields a failure and no scratch
\* directory, no script file and no child process.
C16_InvalidCodeFailsFast ==
  \A c \in Calls :
    (SandboxInvoked(c) /\ ~CodeValid(c)) =>
      /\ ~InSandbox(c)
      /\ ~call[c].executionResult.success
      /\ call[c].mkdirs = 0
      /\ call[c].spawns = 0
      /\ call[c].sandboxId \notin (dirs \cup scripts \cup children)

\* A command with a blacklisted function passed the risk gate and was
\* rejected by the sandbox's validation.
C16_Witness ==
  \E c \in Calls :
    /\ Returned(c)
    /\ SandboxInvoked(c)
    /\ ~CodeValid(c)
    /\ call[c].result.error = "Code validation failed"
    /\ ~call[c].result.blocked

\* C17: two calls that reach the sandbox use distinct scratch ids and have
\* distinct session ids, and the directory, script and child of a call are
\* there from their creation until that call's own cleanup, whatever the
\* other call does in between.
C17_ConcurrentSandboxesIsolated ==
  /\ \A c, d \in Calls :
       (c # d /\ SandboxInvoked(c) /\ SandboxInvoked(d)) =>
         /\ call[c].sandboxId # call[d].sandboxId
         /\ call[c].sessionId # call[d].sessionId
  /\ \A c \in Calls :
       /\ call[c].pc = "writeFile" => call[c].sandboxId \in dirs
       /\ call[c].pc = "child" =>
            call[c].sandboxId \in (dirs \cap scripts) \cap children

\* One call has removed its script and is about to remove its directory
\* while the child of the other call is running on its own script.
C17_Witness ==
  \E c, d \in Calls :
    /\ c # d
    /\ call[c].pc = "rm"
    /\ call[c].exit = "exit0_success"
    /\ call[d].pc = "child"
    /\ call[d].sandboxId \in scripts
    /\ call[c].sandboxId \in dirs

(***************************************************************************)
(* Properties of AccessControl.                                            *)
(***************************************************************************)
\* The last call was a session access for sessionId.
Accessed(sessionId) == acReturn.op # "none" /\ acReturn.sessionId = sessionId

\* C18: a session that has not been invalidated and is not idle is
\* accepted; a session id that has been invalidated, explicitly or by an
\* access that found it expired, is never accepted again by
\* getValidSession, hasPermission, checkRateLimit or getUserBySession,
\* whatever is called in between.
C18_NoResurrection ==
  /\ \A sessionId \in DOMAIN sessions :
       (sessionId \notin acHistory.revoked
          /\ acNow - sessions[sessionId].lastActivity <= SessionTimeout)
         => SessionAccepted(sessionId)
  /\ \A sessionId \in acHistory.revoked :
       /\ ~SessionAccepted(sessionId)
       /\ Accessed(sessionId) => (~acReturn.sessionOk /\ ~acReturn.value)

\* An invalidated session was presented to hasPermission and refused while
\* the same user holds a newer, valid session.
C18_Witness ==
  \E old \in acHistory.revoked, new \in DOMAIN sessions :
    /\ old # new
    /\ old \in DOMAIN sessions
    /\ sessions[old].userId = sessions[new].userId
    /\ sessions[new].isValid
    /\ acReturn.op = "hasPermission"
    /\ acReturn.sessionId = old
    /\ ~acReturn.value

\* C19: an access to a valid session idle longer than the timeout is
\* refused and marks the session invalid; an access to one idle at most the
\* timeout is accepted and sets lastActivity to the time of the access; a
\* session idle longer than the timeout is not accepted.
C19_InactivityTimeout ==
  /\ [](\A sessionId \in DOMAIN sessions :
          acNow - sessions[sessionId].lastActivity > SessionTimeout
            => ~SessionAccepted(sessionId))
  /\ [](\A sessionId \in acHistory.expired : ~SessionAccepted(sessionId))
  /\ [][\A sessionId \in DOMAIN sessions :
          (acReturn'.op # "none" /\ acReturn'.sessionId = sessionId
             /\ sessions[sessionId].isValid) =>
            IF acNow - sessions[sessionId].lastActivity > SessionTimeout
            THEN /\ ~acReturn'.sessionOk
                 /\ ~sessions'[sessionId].isValid
            ELSE /\ acReturn'.sessionOk
                 /\ sessions'[sessionId].isValid
                 /\ sessions'[sessionId].lastActivity = acNow]_vars

\* One session was refused for inactivity; another, kept alive by an access
\* at the very end of its window, has just been accepted again.
C19_Witness ==
  \E idle \in acHistory.expired, live \in DOMAIN sessions :
    /\ idle # live
    /\ acNow = MaxAcTime
    /\ acReturn.op = "getValidSession"
    /\ acReturn.sessionId = live
    /\ acReturn.sessionOk
    /\ sessions[live].lastActivity = acNow

\* C20: after updateUserPermissions every session issued to the user
\* before the call is invalid, and hasPermission answers by the permission
\* set the user had when the session was issued.
C20_PermissionsFixedAtIssuance ==
  /\ \A sessionId \in acHistory.outdated :
       /\ ~SessionAccepted(sessionId)
       /\ sessionId \in DOMAIN sessions => ~sessions[sessionId].isValid
  /\ \A sessionId \in DOMAIN sessions :
       permArrays[sessions[sessionId].permissions] = acHistory.issuedWith[sessionId]
  /\ (acReturn.op = "hasPermission" /\ acReturn.sessionOk) =>
       (acReturn.value <=>
          \/ "admin" \in acHistory.issuedWith[acReturn.sessionId]
          \/ acReturn.arg \in acHistory.issuedWith[acReturn.sessionId])

\* The user's permissions were replaced; the session issued before is
\* invalid, and a session issued after is refused a permission the old set
\* granted.
C20_Witness ==
  \E old \in acHistory.outdated, new \in DOMAIN sessions :
    /\ sessions[new].isValid
    /\ "admin" \in acHistory.issuedWith[old]
    /\ "admin" \notin acHistory.issuedWith[new]
    /\ acReturn.op = "hasPermission"
    /\ acReturn.sessionId = new
    /\ acReturn.sessionOk
    /\ ~acReturn.value

\* C21: hasPermission returns true exactly for a session that is in the
\* table, valid and unexpired and whose permissions contain 'admin' or the
\* requested permission; it returns false for an unknown, an invalidated
\* and an expired session.  (After the call an accepted session is valid
\* and a session refused for inactivity is not.)
C21_HasPermissionIff ==
  acReturn.op = "hasPermission" =>
    /\ acReturn.value <=>
         /\ acReturn.sessionId \in DOMAIN sessions
         /\ sessions[acReturn.sessionId].isValid
         /\ \/ "admin" \in permArrays[sessions[acReturn.sessionId].permissions]
            \/ acReturn.arg \in permArrays[sessions[acReturn.sessionId].permissions]
    /\ acReturn.value => sessions[acReturn.sessionId].lastActivity = acNow
    /\ (acReturn.sessionId \notin IssuedSessionIds
          \/ acReturn.sessionId \in acHistory.revoked) => ~acReturn.value

\* A session holding only 'admin' was granted a permission it does not
\* list.
C21_Witness ==
  /\ acReturn.op = "hasPermission"
  /\ acReturn.value
  /\ acReturn.arg = "take_screenshot"
  /\ permArrays[sessions[acReturn.sessionId].permissions] = {"admin"}

\* C22: the rate limit is enforced per identity.  A checkRateLimit call
\* with an accepted session returns true exactly when the calls made so
\* far in the present window with any session of the same user, this one
\* included, are at most the user's maxRequests; the count starts again
\* when the window has rolled over and the calls of other users are not
\* counted.  Without an accepted session the call returns false.
C22_RateLimitPerIdentity ==
  acReturn.op = "checkRateLimit" =>
    /\ ~acReturn.sessionOk => ~acReturn.value
    /\ acReturn.sessionId \in acHistory.revoked => ~acReturn.value
    /\ acReturn.sessionOk =>
         LET userId == sessions[acReturn.sessionId].userId IN
         acReturn.value <=>
           acHistory.checks[userId].n <= users[UserById(userId)].rateLimit.maxRequests

\* A user with two live sessions is refused after a window has already
\* rolled over.
C22_Witness ==
  /\ acReturn.op = "checkRateLimit"
  /\ acReturn.sessionOk
  /\ ~acReturn.value
  /\ acNow > 0
  /\ Cardinality({k \in DOMAIN sessions :
                    /\ sessions[k].isValid
                    /\ sessions[k].userId = sessions[acReturn.sessionId].userId}) = 2

\* The ids randomUUID() can hand out to AccessControl within the bounds.
AcIds == 1..(2 + 2 * MaxUsers + MaxKeys + MaxSessions)

\* C23: whatever logins, permission checks, rate-limit checks and
\* revocations the cleanup timer is interleaved with, a step that takes
\* sessions out of the table takes only sessions that were invalid or idle
\* longer than the inactivity timeout, and every session in the table that
\* is invalid or idle longer than the timeout is eventually out of it.
C23_CleanupRemovesOnlyStale ==
  /\ [][\A k \in DOMAIN sessions \ DOMAIN sessions' :
          ~sessions[k].isValid \/ acNow - sessions[k].lastActivity > SessionTimeout]_vars
  /\ \A id \in AcIds :
       (id \in DOMAIN sessions
          /\ (~sessions[id].isValid
                \/ acNow - sessions[id].lastActivity > SessionTimeout))
         ~> (id \notin DOMAIN sessions)

\* A cleanup pass has taken one session out and left a live one in.
C23_Witness ==
  /\ \E id \in IssuedSessionIds : id \notin DOMAIN sessions
  /\ \E k \in DOMAIN sessions :
       sessions[k].isValid /\ acNow - sessions[k].lastActivity <= SessionTimeout
  /\ acReturn.op \in {"hasPermission", "checkRateLimit"}

\* The user has had its API key regenerated.
Regenerated(userId) == \E r \in acHistory.oldKeys : r.userId = userId

\* The session id the last authentication returned is a valid session of
\* user u.
LoggedInAs(u) ==
  /\ acReturn.value
  /\ acReturn.sessionId \in DOMAIN sessions
  /\ sessions[acReturn.sessionId].isValid
  /\ sessions[acReturn.sessionId].userId = users[u].id

\* C24: once a user's API key has been regenerated, authenticateApiKey
\* with the previous key returns null and adds no session, authenticateApiKey
\* with the new key logs the (active) user in, and authenticateUser with the
\* user's password still logs it in.
C24_RegeneratedKeyReplacesOld ==
  /\ [](acReturn.op = "authenticateApiKey" =>
          LET u == UserByApiKey(acReturn.apiKey) IN
          /\ (\E r \in acHistory.oldKeys : r.apiKey = acReturn.apiKey) =>
               ~acReturn.value /\ acReturn.sessionId = 0
          /\ (u # 0 /\ users[u].isActive /\ Regenerated(users[u].id)) => LoggedInAs(u))
  /\ [](acReturn.op = "authenticateUser" =>
          LET u == UserByName(acReturn.arg) IN
          (u # 0 /\ users[u].isActive /\ Regenerated(users[u].id)
             /\ users[u].hashedPassword = <<"sha256", acReturn.password, "mcp-server-salt">>)
            => LoggedInAs(u))
  /\ [][(acReturn'.op = "authenticateApiKey"
           /\ \E r \in acHistory.oldKeys : r.apiKey = acReturn'.apiKey)
          => sessions' = sessions]_vars

\* The previous key of the default admin was refused while the password
\* login of an earlier call is still a live session.
C24_Witness ==
  /\ acReturn.op = "authenticateApiKey"
  /\ ~acReturn.value
  /\ \E r \in acHistory.oldKeys : r.apiKey = acReturn.apiKey /\ r.userId = 1
  /\ \E k \in DOMAIN sessions : sessions[k].isValid /\ sessions[k].userId = 1

\* authenticateUser was called with an unknown username, the username of a
\* deactivated user, or a password that is not the user's.
BadLogin(table, username, password) ==
  LET matches == {i \in 1..Len(table) : table[i].username = username} IN
  \/ matches = {}
  \/ LET u == CHOOSE i \in matches : \A j \in matches : i <= j IN
       \/ ~table[u].isActive
       \/ table[u].hashedPassword # <<"sha256", password, "mcp-server-salt">>

\* C25: authenticateUser answers an unknown username, a deactivated user
\* and a wrong password alike: it returns null, and the call leaves the
\* users, the session table, the permission arrays, the issued ids and the
\* rate limiter as they were.
C25_UniformLoginFailure ==
  /\ [](acReturn.op = "authenticateUser"
          /\ BadLogin(users, acReturn.arg, acReturn.password)
        => [acReturn EXCEPT !.arg = "none", !.password = "none"]
             = [NoReturn EXCEPT !.op = "authenticateUser"])
  /\ [][(acReturn'.op = "authenticateUser"
           /\ BadLogin(users, acReturn'.arg, acReturn'.password))
          => UNCHANGED <<users, sessions, permArrays, acIssued, acHistory, limiter>>]_vars

\* A deactivated user presented its own password and was refused, with
\* sessions of other logins in the table.
C25_Witness ==
  /\ acReturn.op = "authenticateUser"
  /\ ~acReturn.value
  /\ \E i \in 1..Len(users) :
       /\ users[i].username = acReturn.arg
       /\ ~users[i].isActive
       /\ users[i].hashedPassword = <<"sha256", acReturn.password, "mcp-server-salt">>
  /\ sessions # <<>>

\* A path with a traversal segment, a leading '~', or under /etc, /sys,
\* /proc or the Windows system directory.
RestrictedPath(p) ==
  /\ p # NoPath
  /\ \/ \E i \in 1..Len(p) : p[i] = ".."
     \/ p[1] = "~"
     \/ Len(p) >= 2 /\ p[1] = "/" /\ p[2] \in {"etc", "sys", "proc"}
     \/ Len(p) >= 2 /\ p[1] = "C:" /\ p[2] = "Windows"

\* C26: a take_screenshot request whose output path has a traversal
\* segment, starts with '~' or lies under a system directory never gets as
\* far as the capture: takeScreenshot is not called for it and no file is
\* written.
C26_RestrictedPathRejected ==
  \A r \in Calls :
    (handler[r].request.name = "take_screenshot"
       /\ RestrictedPath(handler[r].request.outputPath))
      => handler[r].contacts = 0 /\ handler[r].written = NoPath

(***************************************************************************)
(* The stateless helpers: DryRunAnalyzer.detectCommandType and the         *)
(* security levels of security/config.ts.  A command is a sequence of      *)
(* lexical fragments; a regular expression matches a command when it       *)
(* matches inside one of its fragments.                                    *)
(***************************************************************************)
MaxFragments == 2

CommandTypes ==
  {"dom_manipulation", "ui_interaction", "data_extraction", "navigation",
   "code_execution", "general"}

\* The categories whose regular expression (case-insensitive, unanchored)
\* matches inside the fragment.
FragmentMatches(tok) ==
  CASE tok = "document.title" -> {"dom_manipulation"}
    [] tok = "element.click()" -> {"dom_manipulation", "ui_interaction"}
    [] tok = "scrollTo(" -> {"ui_interaction"}
    [] tok = ".innerText" -> {"data_extraction"}
    [] tok = "location.href" -> {"navigation"}
    [] tok = "EVAL(" -> {"code_execution"}
    [] tok = "1 + 1" -> {}

Fragments ==
  {"document.title", "element.click()", "scrollTo(", ".innerText", "location.href",
   "EVAL(", "1 + 1"}

\* The commands detectCommandType is called with.
DryRunCommands ==
  {Str(toks) : toks \in UNION {[1..n -> Fragments] : n \in 0..MaxFragments}}

\* regex.test(command) for the regular expression of the category.
Test(category, command) ==
  \E i \in 1..Len(command.toks) : category \in FragmentMatches(command.toks[i])

\* A classifier that looks for code execution first.
detectCommandType_CodeFirst(command) ==
  IF Test("code_execution", command) THEN "code_execution"
  ELSE IF Test("dom_manipulation", command) THEN "dom_manipulation"
  ELSE IF Test("ui_interaction", command) THEN "ui_interaction"
  ELSE IF Test("data_extraction", command) THEN "data_extraction"
  ELSE IF Test("navigation", command) THEN "navigation"
  ELSE "general"

detectCommandType(command) ==
  IF Test("dom_manipulation", command) THEN "dom_manipulation"
  ELSE IF Test("ui_interaction", command) THEN "ui_interaction"
  ELSE IF Test("data_extraction", command) THEN "data_extraction"
  ELSE IF Test("navigation", command) THEN "navigation"
  ELSE IF Test("code_execution", command) THEN "code_execution"
  ELSE "general"

DetectCommandType(command) ==
  /\ dryRun' = [called |-> TRUE, command |-> command, type |-> detectCommandType(command)]
  /\ UNCHANGED <<env, detected, analysed, managerVars, handler, acVars, utilVars>>

SecurityLevels == {"strict", "balanced", "permissive", "development"}

\* What MCP_SECURITY_LEVEL is set to: a level in either case, something
\* that is no level, or nothing.
LevelSettings == SecurityLevels \cup {"STRICT", "Permissive", "paranoid", Unset}

\* What NODE_ENV is set to.
NodeEnvSettings == {"production", "test", "development", "staging", Unset}

Environments == [MCP_SECURITY_LEVEL : LevelSettings, NODE_ENV : NodeEnvSettings]

\* String.prototype.toLowerCase; undefined?.toLowerCase() is undefined.
toLowerCase(str) ==
  CASE str = "STRICT" -> "strict"
    [] str = "Permissive" -> "permissive"
    [] str = "CLICK_BY_TEXT" -> "click_by_text"
    [] OTHER -> str

\* A detection that falls back on NODE_ENV when no level is set.
detectSecurityLevel_ByNodeEnv(e) ==
  IF toLowerCase(e.MCP_SECURITY_LEVEL) \in SecurityLevels
  THEN toLowerCase(e.MCP_SECURITY_LEVEL)
  ELSE CASE e.NODE_ENV = "production" -> "strict"
         [] e.NODE_ENV = "test" -> "permissive"
         [] e.NODE_ENV = "development" -> "development"
         [] OTHER -> "balanced"

\* detectSecurityLevel: the switch over the lower-cased MCP_SECURITY_LEVEL.
detectSecurityLevel(e) ==
  LET explicitLevel == toLowerCase(e.MCP_SECURITY_LEVEL) IN
  CASE explicitLevel = "balanced" -> "balanced"
    [] explicitLevel = "permissive" -> "permissive"
    [] explicitLevel = "development" -> "development"
    [] OTHER -> "strict"

DetectSecurityLevel ==
  /\ detected' = detectSecurityLevel(env)
  /\ UNCHANGED <<env, dryRun, analysed, managerVars, handler, acVars, utilVars>>

\* SECURITY_PROFILES[level].riskThreshold
riskThreshold(level) ==
  CASE level = "strict" -> "low"
    [] level = "balanced" -> "medium"
    [] level = "permissive" -> "high"
    [] level = "development" -> "critical"

\* getSecurityConfig(level); enableInputValidation is not part of the
\* modelled configuration.
getSecurityConfig(level) ==
  [ defaultRiskThreshold |-> riskThreshold(level),
    enableAuditLog |-> TRUE,
    enableSandbox |-> level # "development",
    enableScreenshotEncryption |-> level # "development" ]

\* The helpers called, in any order, in a server started in any
\* environment.
InitAnalysis == \E e \in Environments : Startup(e)

NextAnalysis ==
  \/ \E command \in DryRunCommands : DetectCommandType(command)
  \/ DetectSecurityLevel

SpecAnalysis == InitAnalysis /\ [][NextAnalysis]_vars

\* The categories in the order the claim gives them.
CategoryOrder ==
  <<"dom_manipulation", "ui_interaction", "data_extraction", "navigation",
    "code_execution">>

\* C27: detectCommandType returns the first category, in the order
\* dom_manipulation, ui_interaction, data_extraction, navigation,
\* code_execution, whose pattern matches the command, and 'general' when
\* none does; a command matching a DOM pattern and a code-execution pattern
\* is dom_manipulation.
C27_FirstMatchingCategory ==
  dryRun.called =>
    LET toks == dryRun.command.toks
        matching == {i \in 1..5 :
                       \E k \in 1..Len(toks) : CategoryOrder[i] \in FragmentMatches(toks[k])}
    IN /\ matching = {} => dryRun.type = "general"
       /\ matching # {} =>
            \E i \in matching :
              /\ dryRun.type = CategoryOrder[i]
              /\ \A j \in matching : i <= j
       /\ (1 \in matching /\ 5 \in matching) => dryRun.type = "dom_manipulation"

\* A command with a code-execution fragment before a DOM fragment was
\* classified dom_manipulation.
C27_Witness ==
  /\ dryRun.called
  /\ dryRun.command.toks = <<"EVAL(", "document.title">>
  /\ dryRun.type = "dom_manipulation"

C30_StartupConfigIsProfile ==
  LET profile == getSecurityConfig(detectSecurityLevel(env)) IN
  /\ config.defaultRiskThreshold = profile.defaultRiskThreshold
  /\ config.enableSandbox = profile.enableSandbox
  /\ config.enableScreenshotEncryption = profile.enableScreenshotEncryption

C31_LaterCallsUseMergedConfig ==
  \A c \in Calls :
    call[c].spawnTimeout # 0 => call[c].spawnTimeout = call[c].timeoutAtStart

\* The fields of C31 that are read at the time of the call: the sandbox is
\* used exactly when enableSandbox was set at the call's execution step.
C31_SwitchesReadAtCallTime ==
  \A c \in Calls :
    call[c].spawns > 0 => call[c].sandboxAtExecution

(***************************************************************************)
(* The command translation layer: sendCommandToElectron.                   *)
(*                                                                         *)
(* An argument string is a sequence of pieces; <<>> is the empty string,   *)
(* and also the absent argument, since the code reads every argument       *)
(* through `args?.x || ...`.                                               *)
(***************************************************************************)
ArgTexts ==
  { <<>>,
    <<"#save">>,
    <<"javascript:", "x">>,
    <<"JavaScript:", "x">>,
    <<"#save", "<script", ">">>,
    <<"http", "://", "x">>,
    <<"Ctrl", "+", "n">>,
    <<"Ctrl", "+", "Enter">>,
    <<"Backspace">>,
    <<"n">> }

ArgValues == { <<>>, <<"hello">> }

CommandArgs == [selector : ArgTexts, text : ArgTexts, value : ArgValues]

CommandNames ==
  { "click_button", "click_by_selector", "click_by_text", "CLICK_BY_TEXT",
    "fill_input", "send_keyboard_shortcut", "navigate_to_hash", "get_title" }

\* String.prototype.includes, which compares case-sensitively.
includes(str, piece) == \E i \in 1..Len(str) : str[i] = piece

\* The number of characters of one piece.
PieceLength(piece) ==
  CASE piece \in {"n", "x", ">", "+"} -> 1
    [] piece = "://" -> 3
    [] piece \in {"http", "Ctrl"} -> 4
    [] piece \in {"#save", "Enter", "hello"} -> 5
    [] piece = "<script" -> 7
    [] piece = "Backspace" -> 9
    [] OTHER -> 11

\* String.prototype.length
RECURSIVE length(_)
length(str) ==
  IF str = <<>> THEN 0 ELSE PieceLength(Head(str)) + length(Tail(str))

\* String.prototype.split: the parts between the separators.
RECURSIVE split(_, _)
split(str, sep) ==
  IF ~includes(str, sep) THEN <<str>>
  ELSE LET i == CHOOSE k \in 1..Len(str) :
                  str[k] = sep /\ \A j \in 1..(k - 1) : str[j] # sep
       IN <<SubSeq(str, 1, i - 1)>> \o split(SubSeq(str, i + 1, Len(str)), sep)

validKeys ==
  { <<"Enter">>, <<"Escape">>, <<"Tab">>, <<"Space">>, <<"ArrowUp">>,
    <<"ArrowDown">>, <<"ArrowLeft">>, <<"ArrowRight">> }

\* A key test that lets every key name through.
KeyPartAccepted_AnyName(keyPart) == TRUE

\* keyPart.length === 1 || validKeys.includes(keyPart)
KeyPartAccepted(keyPart) == length(keyPart) = 1 \/ keyPart \in validKeys

\* a || b on strings: a unless it is empty.
OrElse(a, b) == IF a # <<>> THEN a ELSE b

Refuse(message) == [refused |-> TRUE, result |-> message]
Generated == [refused |-> FALSE, result |-> "javascriptCode"]

(***************************************************************************)
(* The switch of sendCommandToElectron: either an early return of a        *)
(* message, or the JavaScript to be evaluated in the application.          *)
(***************************************************************************)
Translate(command, args) ==
  LET name == toLowerCase(command) IN
  CASE name = "click_button" ->
         LET selector == OrElse(args.selector, <<"button">>) IN
         IF includes(selector, "javascript:") \/ includes(selector, "<script")
         THEN Refuse("Invalid selector: contains dangerous content")
         ELSE Generated
    [] name = "click_by_text" ->
         IF args.text = <<>> THEN Refuse("ERROR: Missing text") ELSE Generated
    [] name = "click_by_selector" ->
         IF args.selector = <<>> THEN Refuse("ERROR: Missing selector")
         ELSE IF includes(args.selector, "javascript:")
                 \/ includes(args.selector, "<script")
         THEN Refuse("Invalid selector: contains dangerous content")
         ELSE Generated
    [] name = "send_keyboard_shortcut" ->
         LET parts == split(args.text, "+")
             keyPart == parts[Len(parts)]
         IN IF KeyPartAccepted(keyPart) THEN Generated
            ELSE Refuse("Invalid keyboard shortcut")
    [] name = "navigate_to_hash" ->
         IF includes(args.text, "javascript:") \/ includes(args.text, "<script")
            \/ includes(args.text, "://")
         THEN Refuse("Invalid hash: contains dangerous content")
         ELSE Generated
    [] name = "fill_input" ->
         LET inputValue == OrElse(args.value, args.text) IN
         IF inputValue = <<>> THEN Refuse("ERROR: Missing value") ELSE Generated
    [] OTHER -> Generated

\* sendCommandToElectron is called; it awaits findElectronTarget().
SendCommandToElectron(command, args) ==
  /\ translation.pc = "idle"
  /\ translation' = [IdleTranslation EXCEPT !.pc = "findTarget",
                                            !.command = command,
                                            !.args = args]
  /\ UNCHANGED <<evaluation, launcherVars, managerVars, handler, acVars, analysisVars>>

\* findElectronTarget settles.  A rejection is rethrown by the catch block;
\* otherwise the switch runs and either returns or awaits executeInElectron.
FindTargetSettled(found) ==
  /\ translation.pc = "findTarget"
  /\ LET t == Translate(translation.command, translation.args) IN
     translation' =
       IF ~found
       THEN [translation EXCEPT !.pc = "done", !.outcome = "thrown",
                                !.result = "Failed to send command"]
       ELSE IF t.refused
       THEN [translation EXCEPT !.pc = "done", !.outcome = "returned",
                                !.result = t.result]
       ELSE [translation EXCEPT !.pc = "evaluate",
                                !.evaluations = @ + 1]
  /\ UNCHANGED <<evaluation, launcherVars, managerVars, handler, acVars, analysisVars>>

\* executeInElectron settles.
EvaluateSettled(ok) ==
  /\ translation.pc = "evaluate"
  /\ translation' =
       IF ok
       THEN [translation EXCEPT !.pc = "done", !.outcome = "returned",
                                !.result = "Result"]
       ELSE [translation EXCEPT !.pc = "done", !.outcome = "thrown",
                                !.result = "Failed to send command"]
  /\ UNCHANGED <<evaluation, launcherVars, managerVars, handler, acVars, analysisVars>>

\* The caller has the result; the next command may be sent.
TranslationReturned ==
  /\ translation.pc = "done"
  /\ translation' = IdleTranslation
  /\ UNCHANGED <<evaluation, launcherVars, managerVars, handler, acVars, analysisVars>>

NextTranslation ==
  \/ \E command \in CommandNames, args \in CommandArgs :
       SendCommandToElectron(command, args)
  \/ \E found \in BOOLEAN : FindTargetSettled(found)
  \/ \E ok \in BOOLEAN : EvaluateSettled(ok)
  \/ TranslationReturned

SpecTranslation == Init /\ [][NextTranslation]_vars

\* The messages the switch returns instead of evaluating.
ErrorStrings ==
  { "Invalid selector: contains dangerous content", "ERROR: Missing text",
    "ERROR: Missing selector", "Invalid keyboard shortcut",
    "Invalid hash: contains dangerous content", "ERROR: Missing value" }

\* The inputs that are to be refused; fill_input is refused when
\* fillRefused holds of its arguments.
MustRefuse(command, args, fillRefused) ==
  \/ /\ command \in {"click_button", "click_by_selector"}
     /\ \E i \in 1..Len(args.selector) :
          args.selector[i] \in {"javascript:", "<script"}
  \/ command = "click_by_selector" /\ args.selector = <<>>
  \/ command = "click_by_text" /\ args.text = <<>>
  \/ command = "fill_input" /\ fillRefused
  \/ /\ command = "send_keyboard_shortcut"
     /\ args.text \notin { <<"n">>, <<"Ctrl", "+", "n">>, <<"Ctrl", "+", "Enter">> }
  \/ /\ command = "navigate_to_hash"
     /\ \E i \in 1..Len(args.text) :
          args.text[i] \in {"javascript:", "<script", "://"}

\* C32 as stated: whenever a command is to be refused, fill_input with an
\* empty or absent value included, nothing has been evaluated in the
\* application and the call returns one of the error messages.
C32_RefusedWithoutEvaluation ==
  (/\ translation.pc # "idle"
   /\ MustRefuse(translation.command, translation.args,
                 translation.args.value = <<>>))
  => /\ translation.evaluations = 0
     /\ translation.pc # "evaluate"
     /\ translation.pc = "done"
          => translation.outcome = "returned" /\ translation.result \in ErrorStrings

\* C32 as the code has it: fill_input is refused when neither a value nor a
\* text is given (a text stands in for a missing value), and the error
\* message is returned once the target has been found; when no target is
\* found the call fails, still without evaluating anything.
C32_RefusedOnceTargetFound ==
  (/\ translation.pc # "idle"
   /\ MustRefuse(translation.command, translation.args,
                 translation.args.value = <<>> /\ translation.args.text = <<>>))
  => /\ translation.evaluations = 0
     /\ translation.pc # "evaluate"
     /\ translation.pc = "done"
          => \/ translation.outcome = "returned" /\ translation.result \in ErrorStrings
             \/ translation.outcome = "thrown"

\* A script selector has been refused with its message.
C32_Witness ==
  /\ translation.pc = "done"
  /\ translation.command = "click_by_selector"
  /\ translation.args.selector = <<"#save", "<script", ">">>
  /\ translation.outcome = "returned"
  /\ translation.result = "Invalid selector: contains dangerous content"

(***************************************************************************)
(* executeInElectron: one evaluation over the DevTools WebSocket.          *)
(***************************************************************************)

\* The id of the Runtime.enable request the open handler sends first.
EnableId == 1

\* Math.floor(Math.random() * 1000000): any of 0..999999, of which the
\* model keeps the id of the Runtime.enable request and two others.
MessageIds == {0, EnableId, 424242}

\* The timeout of one evaluation, and the number of clock steps it is
\* divided into.
TimeoutMs == 10000
MaxTicks == 4
ClockStepMs == TimeoutMs \div MaxTicks

\* What the target answers to Runtime.evaluate: a protocol error, or a
\* result whose result.type is a string, undefined or something else.
EvaluateAnswers == {"error", "string", "undefined", "other"}

\* resolve and reject settle a promise that is still pending, and do
\* nothing to a settled one.
Settle(e, how, value) ==
  IF e.promise = "pending"
  THEN [e EXCEPT !.promise = how, !.value = value]
  ELSE e

\* clearTimeout on a timer that has not fired yet.
clearTimeout(timer) == IF timer = "armed" THEN "cleared" ELSE timer

\* The sync prefix of executeInElectron: a target without a debugger URL
\* makes it throw; otherwise the socket is created and the timer armed.
ExecuteInElectron(id, hasUrl) ==
  /\ evaluation.phase = "idle"
  /\ evaluation' =
       IF ~hasUrl
       THEN [IdleEvaluation EXCEPT !.phase = "started",
                                   !.promise = "rejected",
                                   !.value = "No WebSocket debugger URL available"]
       ELSE [IdleEvaluation EXCEPT !.phase = "started",
                                   !.messageId = id,
                                   !.socket = "connecting",
                                   !.timer = "armed"]
  /\ UNCHANGED <<translation, launcherVars, managerVars, handler, acVars, analysisVars>>

\* ws.on("open"): Runtime.enable is sent with id 1, then Runtime.evaluate
\* with id messageId.
WsOpen ==
  /\ evaluation.socket = "connecting"
  /\ evaluation' =
       [evaluation EXCEPT
          !.socket = "open",
          !.requests = << [id |-> EnableId, method |-> "Runtime.enable"],
                          [id |-> evaluation.messageId,
                           method |-> "Runtime.evaluate"] >>]
  /\ UNCHANGED <<translation, launcherVars, managerVars, handler, acVars, analysisVars>>

\* The response handler of ws.on("message"), on the response to a request.
\* The response to Runtime.enable is {id, result: {}}: when its id is taken
\* for messageId, reading result.result.type throws, and the catch block
\* only logs.
OnMessage(e, request, answer) ==
  IF request.id # e.messageId THEN e
  ELSE LET closed == [e EXCEPT !.timer = clearTimeout(@), !.socket = "closed"] IN
       CASE request.method = "Runtime.enable" -> closed
         [] answer = "error" -> Settle(closed, "rejected", "DevTools Protocol error")
         [] answer = "string" -> Settle(closed, "resolved", "Command executed: value")
         [] answer = "undefined" ->
              Settle(closed, "resolved", "Command executed successfully")
         [] OTHER -> Settle(closed, "resolved", "Result")

\* The target answers the oldest request it has received, and the message
\* handler runs on the response.
WsMessage(answer) ==
  /\ evaluation.phase = "started"
  /\ evaluation.requests # <<>>
  /\ evaluation' =
       [OnMessage(evaluation, Head(evaluation.requests), answer)
          EXCEPT !.requests = Tail(evaluation.requests)]
  /\ UNCHANGED <<translation, launcherVars, managerVars, handler, acVars, analysisVars>>

\* ws.on("error"): the timer is cleared and the promise rejected.
WsError ==
  /\ evaluation.socket \in {"connecting", "open"}
  /\ evaluation' =
       [Settle([evaluation EXCEPT !.timer = clearTimeout(@)],
               "rejected", "WebSocket error")
          EXCEPT !.socket = "errored", !.requests = <<>>]
  /\ UNCHANGED <<translation, launcherVars, managerVars, handler, acVars, analysisVars>>

\* Time passes while the timer is armed.
EvaluationTick ==
  /\ evaluation.timer = "armed"
  /\ evaluation.elapsed < TimeoutMs
  /\ evaluation' = [evaluation EXCEPT !.elapsed = @ + ClockStepMs]
  /\ UNCHANGED <<translation, launcherVars, managerVars, handler, acVars, analysisVars>>

\* The timer fires after 10 s: the socket is closed and the promise rejected.
TimeoutFires ==
  /\ evaluation.timer = "armed"
  /\ evaluation.elapsed = TimeoutMs
  /\ evaluation' =
       Settle([evaluation EXCEPT !.timer = "fired", !.socket = "closed"],
              "rejected", "Command execution timeout (10s)")
  /\ UNCHANGED <<translation, launcherVars, managerVars, handler, acVars, analysisVars>>

\* The caller has the settled promise; the next evaluation may start.
EvaluationReturned ==
  /\ evaluation.phase = "started"
  /\ evaluation.promise # "pending"
  /\ evaluation' = IdleEvaluation
  /\ UNCHANGED <<translation, launcherVars, managerVars, handler, acVars, analysisVars>>

NextEvaluation ==
  \/ \E id \in MessageIds, hasUrl \in BOOLEAN : ExecuteInElectron(id, hasUrl)
  \/ WsOpen
  \/ \E answer \in EvaluateAnswers : WsMessage(answer)
  \/ WsError
  \/ EvaluationTick
  \/ TimeoutFires
  \/ EvaluationReturned

SpecEvaluation == Init /\ [][NextEvaluation]_vars

\* The timers of the event loop run: time passes, and a timer that is due
\* fires.
FairEvaluation ==
  SpecEvaluation /\ WF_vars(EvaluationTick) /\ WF_vars(TimeoutFires)

\* C33: every executeInElectron call eventually settles.
C33_EventuallySettles ==
  (evaluation.phase = "started") ~> (evaluation.promise # "pending")

\* A call whose random id differs from the id of Runtime.enable eventually
\* settles.
C33_SettlesUnlessIdsCollide ==
  (evaluation.phase = "started" /\ evaluation.messageId # EnableId)
    ~> (evaluation.promise # "pending")

\* A timer that was cleared by the handlers belongs to a settled call,
\* unless the ids collide.
C33_ClearedOnlyWhenSettled ==
  (evaluation.timer = "cleared" /\ evaluation.messageId # EnableId)
    => evaluation.promise # "pending"

(***************************************************************************)
(* Process management: launchElectronApp, closeElectronApp and the exit    *)
(* and error listeners of the spawned child.                               *)
(*                                                                         *)
(* The status of a child: "running"; "terminating" once SIGTERM has been   *)
(* sent to it; "killed" once SIGKILL has been sent; "dead" when it has     *)
(* ended and its exit listener has not run yet; "reaped" afterwards;       *)
(* "failed" when it could not be spawned and its error listener has not    *)
(* run yet; "errored" afterwards.                                          *)
(***************************************************************************)

\* ChildProcess.kill(signal): a signal to a child that has ended does
\* nothing.
kill(procs, p, signal) ==
  IF procs[p].status \in {"running", "terminating"}
  THEN [procs EXCEPT ![p].status =
          IF signal = "SIGKILL" THEN "killed" ELSE "terminating"]
  ELSE procs

\* A failed spawn emits 'error' on the next tick, which runs before any
\* other callback of the event loop.
ErrorPending == \E p \in Pids : processes[p].status = "failed"

\* The children that run and have not been sent SIGKILL.
Live(p) == processes[p].status \in {"running", "terminating"}

\* The sync prefix of launchElectronApp: refused while the handle is set;
\* otherwise the child is spawned, the handle set to it, the listeners
\* registered, and the call waits one second.
LaunchElectronApp(spawned) ==
  /\ electronProcess = Null
  /\ \E p \in Pids :
       /\ processes[p].status = "unborn"
       /\ \A q \in Pids : q < p => processes[q].status # "unborn"
       /\ processes' = [processes EXCEPT ![p].status =
                          IF spawned THEN "running" ELSE "failed"]
       /\ electronProcess' = p
       /\ launching' = launching \cup {p}
  /\ UNCHANGED <<graceTimers, timerKills, translation, evaluation,
                 managerVars, handler, acVars, analysisVars>>

\* The second elapsed: the call throws when the handle is null or names a
\* child that has exited, and its catch block clears the handle.
LaunchWaitDone(p) ==
  /\ ~ErrorPending
  /\ p \in launching
  /\ launching' = launching \ {p}
  /\ electronProcess' =
       IF electronProcess = Null THEN Null
       ELSE IF processes[electronProcess].exitCode # "null" THEN Null
       ELSE electronProcess
  /\ UNCHANGED <<processes, graceTimers, timerKills, translation, evaluation,
                 managerVars, handler, acVars, analysisVars>>

\* A child ends: by itself, or by the signal it was sent.
ProcessEnds(p, bySignal) ==
  /\ processes[p].status \in {"running", "terminating", "killed"}
  /\ bySignal => processes[p].status # "running"
  /\ ~bySignal => processes[p].status # "killed"
  /\ processes' = [processes EXCEPT
                     ![p] = [status |-> "dead",
                             exitCode |-> IF bySignal THEN "null" ELSE "set"]]
  /\ UNCHANGED <<electronProcess, launching, graceTimers, timerKills,
                 translation, evaluation, managerVars, handler, acVars,
                 analysisVars>>

\* electronProcess.on("exit"): the handle is cleared.
OnExit(p) ==
  /\ ~ErrorPending
  /\ processes[p].status = "dead"
  /\ processes' = [processes EXCEPT ![p].status = "reaped"]
  /\ electronProcess' = Null
  /\ UNCHANGED <<launching, graceTimers, timerKills, translation, evaluation,
                 managerVars, handler, acVars, analysisVars>>

\* electronProcess.on("error"): the handle is cleared.
OnError(p) ==
  /\ processes[p].status = "failed"
  /\ processes' = [processes EXCEPT ![p].status = "errored"]
  /\ electronProcess' = Null
  /\ UNCHANGED <<launching, graceTimers, timerKills, translation, evaluation,
                 managerVars, handler, acVars, analysisVars>>

\* closeElectronApp(force) with a handle: SIGKILL and the handle cleared,
\* or SIGTERM and a 5 s timer.
CloseElectronApp(force) ==
  /\ ~ErrorPending
  /\ electronProcess # Null
  /\ IF force
     THEN /\ processes' = kill(processes, electronProcess, "SIGKILL")
          /\ electronProcess' = Null
          /\ UNCHANGED graceTimers
     ELSE /\ processes' = kill(processes, electronProcess, "SIGTERM")
          /\ graceTimers' = graceTimers \cup {electronProcess}
          /\ UNCHANGED electronProcess
  /\ UNCHANGED <<launching, timerKills, translation, evaluation,
                 managerVars, handler, acVars, analysisVars>>

\* The 5 s timer of a graceful close fires; requestedFor is the child that
\* ran when the close was requested.  The callback reads the handle.
GraceTimerFires(requestedFor) ==
  /\ ~ErrorPending
  /\ requestedFor \in graceTimers
  /\ graceTimers' = graceTimers \ {requestedFor}
  /\ IF electronProcess # Null
     THEN /\ processes' = kill(processes, electronProcess, "SIGKILL")
          /\ timerKills' = timerKills \cup
               {[requestedFor |-> requestedFor, killed |-> electronProcess]}
          /\ electronProcess' = Null
     ELSE UNCHANGED <<processes, timerKills, electronProcess>>
  /\ UNCHANGED <<launching, translation, evaluation,
                 managerVars, handler, acVars, analysisVars>>

NextLauncher ==
  \/ \E spawned \in BOOLEAN : LaunchElectronApp(spawned)
  \/ \E p \in Pids : LaunchWaitDone(p)
  \/ \E p \in Pids, bySignal \in BOOLEAN : ProcessEnds(p, bySignal)
  \/ \E p \in Pids : OnExit(p)
  \/ \E p \in Pids : OnError(p)
  \/ \E force \in BOOLEAN : CloseElectronApp(force)
  \/ \E p \in Pids : GraceTimerFires(p)

SpecLauncher == Init /\ [][NextLauncher]_vars

\* C34: every launched child that is running is the one the handle refers
\* to, so that at most one runs and a launch is refused while it does.
C34_HandleIsTheLiveProcess ==
  \A p \in Pids : Live(p) => electronProcess = p

\* C35: the grace timer of a close kills only the child that ran when the
\* close was requested.
C35_GraceTimerKillsItsOwnProcess ==
  \A k \in timerKills : k.killed = k.requestedFor

(***************************************************************************)
(* DryRunAnalyzer.analyzeCommand: the command is validated and its         *)
(* content analysed by regular expressions; neither the sandbox, nor the   *)
(* target, nor the audit log is used.  A command that is not a string      *)
(* makes command.substring throw.                                          *)
(***************************************************************************)
AnalyzeCommand(command) ==
  /\ LET validation == validateCommand(command) IN
     analysed' =
       IF ~command.isString
       THEN [NoAnalysis EXCEPT !.called = TRUE, !.command = command,
                               !.outcome = "rejected"]
       ELSE [called |-> TRUE,
             command |-> command,
             outcome |-> "resolved",
             wouldExecute |-> validation.isValid /\ validation.riskLevel # "critical",
             riskLevel |-> validation.riskLevel]
  /\ UNCHANGED <<env, detected, dryRun, managerVars, handler, acVars, utilVars>>

\* One executeSecurely call and dry runs, with updateConfig at any point.
NextDryRun ==
  \/ CallStep(1)
  \/ ConfigStep
  \/ \E command \in Commands : AnalyzeCommand(command)

SpecDryRun == Init /\ [][NextDryRun]_vars

\* C36: the verdict of a dry run agrees with the gate of executeSecurely on
\* the same command: wouldExecute is true exactly when the result is not
\* blocked.
C36_VerdictAgreesWithGate ==
  (/\ analysed.outcome = "resolved"
   /\ call[1].pc = "done"
   /\ call[1].outcome = "resolved"
   /\ call[1].ctx.operationType = "command"
   /\ call[1].ctx.command = analysed.command)
  => (analysed.wouldExecute <=> ~call[1].result.blocked)

\* No other user has the name of user u.
UniqueName(u) ==
  \A v \in 1..Len(users) : v # u => users[v].username # users[u].username

\* C37: while a user is deactivated, no login returns a session of that
\* user, authenticateUser with its name (when the name is its alone) and
\* authenticateApiKey with its key return null, and every session issued
\* to it is invalid; a session invalidated by the deactivation stays
\* invalid after activateUser, while an active user authenticates again.
C37_DeactivationLocksOut ==
  /\ \A u \in 1..Len(users) :
       ~users[u].isActive =>
         /\ (acReturn.op \in {"authenticateUser", "authenticateApiKey"}
               /\ acReturn.value)
              => sessions[acReturn.sessionId].userId # users[u].id
         /\ (acReturn.op = "authenticateUser" /\ acReturn.arg = users[u].username
               /\ UniqueName(u))
              => ~acReturn.value
         /\ (acReturn.op = "authenticateApiKey" /\ acReturn.apiKey = users[u].apiKey)
              => ~acReturn.value
         /\ \A k \in DOMAIN sessions :
              sessions[k].userId = users[u].id => ~sessions[k].isValid
  /\ \A k \in acHistory.revoked \cap DOMAIN sessions : ~sessions[k].isValid
  /\ \A u \in 1..Len(users) :
       (/\ users[u].isActive
        /\ UniqueName(u)
        /\ acReturn.op = "authenticateUser"
        /\ acReturn.arg = users[u].username
        /\ hashPassword(acReturn.password) = users[u].hashedPassword)
         => /\ acReturn.value
            /\ sessions[acReturn.sessionId].userId = users[u].id

\* The administrator, deactivated after a login, has presented the right
\* password and has been refused.
C37_Witness ==
  /\ ~users[1].isActive
  /\ acReturn.op = "authenticateUser"
  /\ acReturn.arg = "admin"
  /\ acReturn.password = "admin123"
  /\ ~acReturn.value
  /\ \E k \in acHistory.revoked : sessions[k].userId = users[1].id

\* The administrator has logged in again after a deactivation and an
\* activation, and the session of before is still invalid.
C37_ReactivatedWitness ==
  /\ users[1].isActive
  /\ acReturn.op = "authenticateUser"
  /\ acReturn.arg = "admin"
  /\ acReturn.value
  /\ \E k \in acHistory.revoked :
       /\ k # acReturn.sessionId
       /\ sessions[k].userId = users[1].id
       /\ ~sessions[k].isValid

\* Provisioning: createUser with any name, activation and the password
\* login.
NextProvisioning ==
  \/ \E username \in Usernames, password \in Passwords :
        CreateUser(username, password, DefaultPermissions,
                   [maxRequests |-> 100, windowMs |-> WindowMs])
  \/ \E userId \in UserIds : DeactivateUser(userId)
  \/ \E userId \in UserIds : ActivateUser(userId)
  \/ \E username \in Usernames, password \in Passwords :
        AuthenticateUser(username, password)

SpecProvisioning == Init /\ [][NextProvisioning]_vars

\* C38: an active user that presents the name and the password it was
\* created with gets a session, and the session is its own.
C38_EveryActiveUserLogsInAsItself ==
  \A u \in 1..Len(users) :
    (/\ users[u].isActive
     /\ acReturn.op = "authenticateUser"
     /\ acReturn.arg = users[u].username
     /\ hashPassword(acReturn.password) = users[u].hashedPassword)
      => /\ acReturn.value
         /\ sessions[acReturn.sessionId].userId = users[u].id

====
